---- MODULE Spec2Model ----
(***************************************************************************)
(* Parity v1 deterministic pipeline and its export / ingestion callers.    *)
(*                                                                         *)
(* Encoding conventions                                                    *)
(*  - a date "YYYY-MM-DD" is the integer YYYYMMDD (integer order is the     *)
(*    order of the ISO strings);                                           *)
(*  - None / a missing dict key / "" is NULL (0) for integer-coded fields   *)
(*    and "absent" for string-coded fields;                                *)
(*  - sha256 is collision free here: Hash(x) is a tagged copy of x;        *)
(*  - uuid4() is a fresh integer taken from the counter next_uuid;         *)
(*  - entity_id of an override is always an entity id (a required form     *)
(*    field), so the "if key" and "or ''" guards on it never apply;         *)
(*  - created_at is the reading of a clock that never goes back and may    *)
(*    give the same reading twice.                                         *)
(***************************************************************************)
EXTENDS Integers, Sequences, FiniteSets, TLC

NULL == 0

Abs(x) == IF x < 0 THEN -x ELSE x

Min2(a, b) == IF a < b THEN a ELSE b

Max2(a, b) == IF a > b THEN a ELSE b

RECURSIVE SumSeq(_)
SumSeq(s) == IF s = <<>> THEN 0 ELSE Head(s) + SumSeq(Tail(s))

Range(s) == {s[i] : i \in 1..Len(s)}

(* the element of a one-element set: The({e(x) : x \in {v}}) is e(v) with v *)
(* evaluated once                                                           *)
The(S) == CHOOSE x \in S : TRUE

(* json.dumps(..., sort_keys=True) followed by sha256: injective on content *)
Hash(x) == <<"sha256", x>>

canonical_hash(rows) == Hash(rows)

(***************************************************************************)
(* Python string order on the strings the model uses (code point order).   *)
(***************************************************************************)
StrRank(s) ==
  CASE s = "" -> 0
    [] s = "absent" -> 0
    [] s = "ACC-1" -> 1
    [] s = "ACC-2" -> 2
    [] s = "client payment" -> 3
    [] s = "loan repayment" -> 4
    [] s = "revenue" -> 5
    [] s = "salary" -> 6
    [] s = "supplier" -> 7
    [] OTHER -> 8

(* Lexicographic order of Python tuples, the tuples coded as integer sequences *)
LexLess(a, b) ==
  \E i \in 1..Len(a) : a[i] < b[i] /\ \A j \in 1..(i - 1) : a[j] = b[j]

(* sorted(xs, key=...): stable, ascending. ks[i] = [k |-> key, v |-> element] *)
StableSort(ks) ==
  LET n == Len(ks)
      pos(i) == Cardinality({j \in 1..n : \/ LexLess(ks[j].k, ks[i].k)
                                          \/ (ks[j].k = ks[i].k /\ j < i)}) + 1
  IN [p \in 1..n |-> ks[CHOOSE i \in 1..n : pos(i) = p].v]

(* sorted(xs, key=..., reverse=True): descending, equal keys keep their order *)
StableSortReverse(ks) ==
  LET n == Len(ks)
      pos(i) == Cardinality({j \in 1..n : \/ LexLess(ks[i].k, ks[j].k)
                                          \/ (ks[j].k = ks[i].k /\ j < i)}) + 1
  IN [p \in 1..n |-> ks[CHOOSE i \in 1..n : pos(i) = p].v]

(***************************************************************************)
(* parsing/common.py                                                       *)
(***************************************************************************)
(* " ".join(str(value or "").strip().lower().split()) on the descriptors used *)
normalize_descriptor(value) ==
  CASE value = "Revenue" -> "revenue"
    [] value = "REVENUE " -> "revenue"
    [] value = "Supplier" -> "supplier"
    [] value = "Loan Repayment" -> "loan repayment"
    [] value = "Client Payment" -> "client payment"
    [] value = "Salary" -> "salary"
    [] OTHER -> value

(* str(desc_val).strip() *)
strip(value) == IF value = "REVENUE " THEN "REVENUE" ELSE value

compute_txn_id(row, document_id) ==
  Hash(<<document_id, row.account_id, row.txn_date, row.signed_amount_cents,
         row.normalized_descriptor>>)

(* the order of the hex digests is a fixed total order on the hashed bases *)
TxnIdKey(tid) ==
  <<tid[2][1], StrRank(tid[2][2]), tid[2][3], tid[2][4], StrRank(tid[2][5])>>

RowSortKey(r) ==
  <<r.txn_date, StrRank(r.account_id), r.signed_amount_cents,
    StrRank(r.normalized_descriptor)>> \o TxnIdKey(r.txn_id)

sort_rows(rows) ==
  StableSort([i \in 1..Len(rows) |-> [k |-> RowSortKey(rows[i]), v |-> rows[i]]])

(* one row of parse_csv: the canonical record of (date, amount, description, account) *)
ParseRow(document_id, date, cents, desc, account) ==
  LET base == [txn_date |-> date,
               signed_amount_cents |-> cents,
               raw_descriptor |-> desc,
               parsed_descriptor |-> strip(desc),
               normalized_descriptor |-> normalize_descriptor(desc),
               account_id |-> account]
  IN [id |-> NULL,
      txn_id |-> compute_txn_id(base, document_id),
      txn_date |-> date,
      signed_amount_cents |-> cents,
      raw_descriptor |-> desc,
      parsed_descriptor |-> strip(desc),
      normalized_descriptor |-> normalize_descriptor(desc),
      account_id |-> account,
      document_id |-> document_id,
      deal_id |-> "absent",
      is_transfer |-> "absent",
      role |-> "absent"]

(***************************************************************************)
(* Calendar                                                                *)
(***************************************************************************)
YearOf(d) == d \div 10000

MonthOf(d) == (d \div 100) % 100

DayOf(d) == d % 100

MkDate(y, m, d) == y * 10000 + m * 100 + d

IsLeap(y) == y % 4 = 0 /\ (y % 100 # 0 \/ y % 400 = 0)

DaysInMonth(y, m) ==
  CASE m = 2 -> IF IsLeap(y) THEN 29 ELSE 28
    [] m \in {4, 6, 9, 11} -> 30
    [] OTHER -> 31

(* date.toordinal() up to a constant: days since 2000-01-01 *)
DayNum(d) ==
  LET y == YearOf(d)
      m == MonthOf(d)
  IN SumSeq([k \in 1..(y - 2000) |-> IF IsLeap(1999 + k) THEN 366 ELSE 365])
     + SumSeq([k \in 1..(m - 1) |-> DaysInMonth(y, k)])
     + DayOf(d)

(***************************************************************************)
(* core/transfer_matcher.py                                                *)
(***************************************************************************)
date_diff_days(d1, d2) == Abs(DayNum(d1) - DayNum(d2))

(* candidates of the positive transaction at index i: indices of negatives *)
Candidates(txs, i) ==
  {j \in 1..Len(txs) :
     /\ txs[j].signed_amount_cents < 0
     /\ Abs(txs[j].signed_amount_cents) = Abs(txs[i].signed_amount_cents)
     /\ txs[j].account_id # txs[i].account_id
     /\ date_diff_days(txs[j].txn_date, txs[i].txn_date) <= 2}

(* rev_candidates of the negative transaction at index j: indices of positives *)
RevCandidates(txs, j) ==
  {p \in 1..Len(txs) :
     /\ txs[p].signed_amount_cents > 0
     /\ Abs(txs[p].signed_amount_cents) = Abs(txs[j].signed_amount_cents)
     /\ txs[p].account_id # txs[j].account_id
     /\ date_diff_days(txs[p].txn_date, txs[j].txn_date) <= 2}

(* the pairs without the test that pos is the only candidate of neg *)
TransferPairs_one_sided(txs) ==
  {<<j, i>> \in (1..Len(txs)) \X (1..Len(txs)) :
     /\ txs[i].signed_amount_cents > 0
     /\ Candidates(txs, i) = {j}}

(* the pairs <<neg, pos>> that pass both uniqueness tests ("is not pos" is identity) *)
TransferPairs(txs) ==
  {<<j, i>> \in (1..Len(txs)) \X (1..Len(txs)) :
     /\ txs[i].signed_amount_cents > 0
     /\ Candidates(txs, i) = {j}
     /\ RevCandidates(txs, j) = {i}}

(* by_abs is a dict: groups are visited in the order their amount first occurs *)
GroupFirst(txs, i) ==
  CHOOSE k \in 1..Len(txs) :
    /\ Abs(txs[k].signed_amount_cents) = Abs(txs[i].signed_amount_cents)
    /\ \A m \in 1..(k - 1) :
         Abs(txs[m].signed_amount_cents) # Abs(txs[i].signed_amount_cents)

SetToSeqBy(S, key) ==
  LET RECURSIVE Build(_)
      Build(T) == IF T = {} THEN <<>>
                  ELSE LET x == CHOOSE x \in T : \A y \in T : key[x] <= key[y]
                       IN <<x>> \o Build(T \ {x})
  IN Build(S)

(* the links in the order the loops append them: by group, then by positive row *)
TransferLinks(transactions, pairs) ==
  The({[q \in 1..Len(ordered) |->
          [id |-> NULL,
           deal_id |-> transactions[ordered[q][2]].deal_id,
           txn_out_id |-> transactions[ordered[q][1]].id,
           txn_in_id |-> transactions[ordered[q][2]].id,
           abs_amount_cents |-> Abs(transactions[ordered[q][2]].signed_amount_cents),
           match_rule_version |-> "v1_transfer_rule"]]
       : ordered \in {SetToSeqBy(pairs,
                                 [p \in pairs |->
                                    GroupFirst(transactions, p[2]) * (Len(transactions) + 1)
                                    + p[2]])}})

match_transfers(transactions) ==
  The({[txs |-> [k \in 1..Len(transactions) |->
                   IF \E p \in pairs : k = p[1] \/ k = p[2]
                   THEN [transactions[k] EXCEPT !.is_transfer = "true"]
                   ELSE transactions[k]],
        links |-> TransferLinks(transactions, pairs)]
       : pairs \in {TransferPairs(transactions)}})

(***************************************************************************)
(* core/entities.py                                                        *)
(***************************************************************************)
EntityId(deal_id, normalized_name) == Hash(<<deal_id, normalized_name>>)

EntityIdKey(eid) == <<StrRank(eid[2][2])>>

(* tx.get("parsed_descriptor") or tx.get("raw_descriptor") or normalized_name *)
DisplayName(tx, normalized_name) ==
  IF tx.parsed_descriptor # "" THEN tx.parsed_descriptor
  ELSE IF tx.raw_descriptor # "" THEN tx.raw_descriptor
  ELSE normalized_name

(* normalize_descriptor(tx.get("normalized_descriptor")) of the row at index i *)
EntityName(transactions, i) == normalize_descriptor(transactions[i].normalized_descriptor)

(* entities in the order their name first occurs, then sorted by entity_id *)
EntitiesOf(deal_id, transactions) ==
  The({StableSort([q \in 1..Len(order) |->
          [k |-> EntityIdKey(EntityId(deal_id, EntityName(transactions, order[q]))),
           v |-> [entity_id |-> EntityId(deal_id, EntityName(transactions, order[q])),
                  deal_id |-> deal_id,
                  normalized_name |-> EntityName(transactions, order[q]),
                  display_name |-> DisplayName(transactions[order[q]],
                                               EntityName(transactions, order[q]))]]])
       : order \in {SetToSeqBy(
                       {i \in 1..Len(transactions) :
                          \A j \in 1..(i - 1) :
                            EntityName(transactions, j) # EntityName(transactions, i)},
                       [i \in 1..Len(transactions) |-> i])}})

build_entities(deal_id, transactions) ==
  The({[entities |-> entities_sorted,
        txn_entity_map |->
          [t \in {transactions[i].txn_id : i \in 1..Len(transactions)} |->
             EntityId(deal_id,
                      EntityName(transactions,
                                 CHOOSE i \in 1..Len(transactions) :
                                   /\ transactions[i].txn_id = t
                                   /\ \A j \in (i + 1)..Len(transactions) :
                                        transactions[j].txn_id # t))],
        entities_hash |-> canonical_hash(entities_sorted)]
       : entities_sorted \in {EntitiesOf(deal_id, transactions)}})

(***************************************************************************)
(* core/classifier.py                                                      *)
(***************************************************************************)
LOAN_KEYWORDS == {"loan", "facility", "credit", "disbursement"}

CAPITAL_KEYWORDS == {"capital", "director", "owner", "shareholder", "investment", "equity"}

REFUND_KEYWORDS == {"reversal", "refund", "chargeback"}

REVENUE_OP_KEYWORDS == {"sale", "pos", "mpesa", "payment", "client", "receipt"}

PAYROLL_KEYWORDS == {"salary", "payroll", "wages", "staff"}

TAX_KEYWORDS == {"tax", "kra", "vat", "paye"}

(* the keywords kw with "kw in d" for the descriptors the model uses *)
KeywordsIn(d) ==
  CASE d = "loan repayment" -> {"loan", "payment"}
    [] d = "client payment" -> {"client", "payment"}
    [] d = "salary" -> {"salary"}
    [] OTHER -> {}

keyword_classify(descriptor, amount_cents) ==
  LET kws == KeywordsIn(descriptor)
  IN IF kws \cap LOAN_KEYWORDS # {}
       THEN (IF amount_cents > 0 THEN "revenue_non_operational" ELSE "supplier")
     ELSE IF kws \cap CAPITAL_KEYWORDS # {}
       THEN (IF amount_cents > 0 THEN "revenue_non_operational" ELSE "supplier")
     ELSE IF kws \cap REFUND_KEYWORDS # {}
       THEN (IF amount_cents > 0 THEN "revenue_non_operational" ELSE "supplier")
     ELSE IF kws \cap REVENUE_OP_KEYWORDS # {} THEN "revenue_operational"
     ELSE IF kws \cap PAYROLL_KEYWORDS # {} THEN "payroll"
     ELSE IF kws \cap TAX_KEYWORDS # {} THEN "supplier"
     ELSE "absent"

classify(txn) ==
  IF txn.is_transfer = "true" THEN "transfer"
  ELSE LET role == keyword_classify(txn.normalized_descriptor, txn.signed_amount_cents)
       IN IF role # "absent" THEN role
          ELSE IF txn.signed_amount_cents > 0 THEN "revenue_operational"
          ELSE IF txn.signed_amount_cents < 0 THEN "supplier"
          ELSE "other"

(***************************************************************************)
(* core/metrics_engine.py                                                  *)
(***************************************************************************)
(* recon_bp = None *)
NONE_BP == -1

add_months(dt, months) ==
  LET year == YearOf(dt) + ((MonthOf(dt) + months - 1) \div 12)
      month == ((MonthOf(dt) + months - 1) % 12) + 1
      day == Min2(DayOf(dt), DaysInMonth(year, month))
  IN MkDate(year, month, day)

FirstOfMonth(dt) == MkDate(YearOf(dt), MonthOf(dt), 1)

RECURSIVE MonthLoop(_, _, _)
MonthLoop(cur, end, months) ==
  IF FirstOfMonth(cur) < FirstOfMonth(end)
  THEN MonthLoop(add_months(cur, 1), end, months + 1)
  ELSE months

SeqMin(s) == CHOOSE x \in Range(s) : \A y \in Range(s) : x <= y

SeqMax(s) == CHOOSE x \in Range(s) : \A y \in Range(s) : x >= y

missing_months(txn_dates) ==
  IF txn_dates = <<>> THEN 0
  ELSE LET start == SeqMin(txn_dates)
           end == SeqMax(txn_dates)
           cur == add_months(FirstOfMonth(start), 1)
       IN MonthLoop(cur, end, 0)

(* the reconciliation block without the overlap test *)
reconcile_without_overlap_test(accrual, active_start, active_end, bank_operational_inflow_cents) ==
  IF accrual.accrual_revenue_cents # NULL /\ accrual.accrual_revenue_cents > 0
     /\ accrual.accrual_period_start # NULL /\ accrual.accrual_period_end # NULL
  THEN IF bank_operational_inflow_cents <= 0
       THEN [status |-> "NOT_RUN", bp |-> NONE_BP]
       ELSE [status |-> "OK",
             bp |-> Max2(0, 10000
                            - ((Abs(accrual.accrual_revenue_cents
                                    - bank_operational_inflow_cents) * 10000)
                               \div accrual.accrual_revenue_cents))]
  ELSE [status |-> "NOT_RUN", bp |-> NONE_BP]

(* the reconciliation block of compute_metrics *)
reconcile(accrual, active_start, active_end, bank_operational_inflow_cents) ==
  IF accrual.accrual_revenue_cents # NULL /\ accrual.accrual_revenue_cents > 0
     /\ accrual.accrual_period_start # NULL /\ accrual.accrual_period_end # NULL
  THEN The({IF accrual_days <= 0 THEN [status |-> "FAILED_OVERLAP", bp |-> NONE_BP]
            ELSE IF (overlap_days * 10000) \div accrual_days < 6000
              THEN [status |-> "FAILED_OVERLAP", bp |-> NONE_BP]
            ELSE IF bank_operational_inflow_cents <= 0
              THEN [status |-> "NOT_RUN", bp |-> NONE_BP]
            ELSE [status |-> "OK",
                  bp |-> Max2(0, 10000
                                 - ((Abs(accrual.accrual_revenue_cents
                                         - bank_operational_inflow_cents) * 10000)
                                    \div accrual.accrual_revenue_cents))]
            : accrual_days \in {DayNum(accrual.accrual_period_end)
                                - DayNum(accrual.accrual_period_start) + 1},
              overlap_days \in {Max2(0, DayNum(Min2(active_end, accrual.accrual_period_end))
                                        - DayNum(Max2(active_start,
                                                      accrual.accrual_period_start)) + 1)}})
  ELSE [status |-> "NOT_RUN", bp |-> NONE_BP]

(* the result dict of compute_metrics from the totals and the reconciliation *)
metrics_result(non_transfer_abs_total, classified_abs_total, bank_operational_inflow_cents, missing_month_count, recon) ==
  The({[non_transfer_abs_total_cents |-> non_transfer_abs_total,
        classified_abs_total_cents |-> classified_abs_total,
        coverage_bp |-> coverage_bp,
        missing_month_count |-> missing_month_count,
        missing_month_penalty_bp |-> Min2(missing_month_count * 1000, 5000),
        reconciliation_status |-> recon.status,
        reconciliation_bp |-> recon.bp,
        base_confidence_bp |-> base_confidence,
        base_after_months_bp |->
          Max2(0, base_confidence - Min2(missing_month_count * 1000, 5000)),
        bank_operational_inflow_cents |-> bank_operational_inflow_cents]
       : coverage_bp \in {(classified_abs_total * 10000) \div non_transfer_abs_total},
         base_confidence \in
           {IF recon.status # "OK" \/ recon.bp = NONE_BP
            THEN (classified_abs_total * 10000) \div non_transfer_abs_total
            ELSE Min2((classified_abs_total * 10000) \div non_transfer_abs_total,
                      recon.bp)}})

(* compute_metrics that reports full coverage when the non-transfer total is 0 *)
compute_metrics_empty_is_covered(transactions, accrual) ==
  The({IF non_transfer_abs_total = 0
       THEN [non_transfer_abs_total_cents |-> 0,
             classified_abs_total_cents |-> 0,
             coverage_bp |-> 10000,
             missing_month_count |-> 0,
             missing_month_penalty_bp |-> 0,
             reconciliation_status |-> "NOT_RUN",
             reconciliation_bp |-> NONE_BP,
             base_confidence_bp |-> 10000,
             base_after_months_bp |-> 10000,
             bank_operational_inflow_cents |-> 0]
       ELSE The({metrics_result(
                   non_transfer_abs_total,
                   SumSeq([i \in 1..Len(transactions) |->
                             IF transactions[i].is_transfer # "true"
                                /\ transactions[i].role # "other"
                             THEN Abs(transactions[i].signed_amount_cents) ELSE 0]),
                   bank_operational_inflow_cents,
                   missing_months([i \in 1..Len(transactions) |->
                                     transactions[i].txn_date]),
                   reconcile(accrual,
                             SeqMin([i \in 1..Len(transactions) |->
                                       transactions[i].txn_date]),
                             SeqMax([i \in 1..Len(transactions) |->
                                       transactions[i].txn_date]),
                             bank_operational_inflow_cents))
                 : bank_operational_inflow_cents \in
                     {SumSeq([i \in 1..Len(transactions) |->
                                IF /\ transactions[i].is_transfer # "true"
                                   /\ transactions[i].signed_amount_cents > 0
                                   /\ transactions[i].role = "revenue_operational"
                                THEN transactions[i].signed_amount_cents ELSE 0])}})
       : non_transfer_abs_total \in
           {SumSeq([i \in 1..Len(transactions) |->
                      IF transactions[i].is_transfer # "true"
                      THEN Abs(transactions[i].signed_amount_cents) ELSE 0])}})

compute_metrics(transactions, accrual) ==
  The({IF non_transfer_abs_total = 0
       THEN [non_transfer_abs_total_cents |-> 0,
             classified_abs_total_cents |-> 0,
             coverage_bp |-> 0,
             missing_month_count |-> 0,
             missing_month_penalty_bp |-> 0,
             reconciliation_status |-> "NOT_RUN",
             reconciliation_bp |-> NONE_BP,
             base_confidence_bp |-> 0,
             base_after_months_bp |-> 0,
             bank_operational_inflow_cents |-> 0]
       ELSE The({metrics_result(
                   non_transfer_abs_total,
                   SumSeq([i \in 1..Len(transactions) |->
                             IF transactions[i].is_transfer # "true"
                                /\ transactions[i].role # "other"
                             THEN Abs(transactions[i].signed_amount_cents) ELSE 0]),
                   bank_operational_inflow_cents,
                   missing_months([i \in 1..Len(transactions) |->
                                     transactions[i].txn_date]),
                   reconcile(accrual,
                             SeqMin([i \in 1..Len(transactions) |->
                                       transactions[i].txn_date]),
                             SeqMax([i \in 1..Len(transactions) |->
                                       transactions[i].txn_date]),
                             bank_operational_inflow_cents))
                 : bank_operational_inflow_cents \in
                     {SumSeq([i \in 1..Len(transactions) |->
                                IF /\ transactions[i].is_transfer # "true"
                                   /\ transactions[i].signed_amount_cents > 0
                                   /\ transactions[i].role = "revenue_operational"
                                THEN transactions[i].signed_amount_cents ELSE 0])}})
       : non_transfer_abs_total \in
           {SumSeq([i \in 1..Len(transactions) |->
                      IF transactions[i].is_transfer # "true"
                      THEN Abs(transactions[i].signed_amount_cents) ELSE 0])}})

(***************************************************************************)
(* core/confidence_engine.py                                               *)
(***************************************************************************)
(* _WEIGHT_STR_TO_BP.get(str(weight), 0) *)
weight_to_bp(weight) ==
  CASE weight = "0" -> 0
    [] weight = "0.0" -> 0
    [] weight = "0.1" -> 1000
    [] weight = "0.5" -> 5000
    [] weight = "0.6" -> 6000
    [] weight = "0.7" -> 7000
    [] weight = "0.8" -> 8000
    [] weight = "0.9" -> 9000
    [] weight = "1.0" -> 10000
    [] OTHER -> 0

(* sorted(overrides, key=created_at, reverse=True) *)
OverridesLatestFirst(overrides) ==
  StableSortReverse([i \in 1..Len(overrides) |->
                       [k |-> <<overrides[i].created_at>>, v |-> overrides[i]]])

(* latest_per_entity that keeps every override *)
LatestPerEntity_every_override(overrides) == Range(overrides)

(* latest_per_entity: the first override of each entity in the sorted list *)
LatestPerEntity(overrides) ==
  The({{srt[i] : i \in {i \in 1..Len(srt) :
                          \A j \in 1..(i - 1) : srt[j].entity_id # srt[i].entity_id}}
       : srt \in {OverridesLatestFirst(overrides)}})

(* entity_values.get(entity_id, 0) *)
EntityValue(entity_values, entity_id) ==
  IF entity_id \in DOMAIN entity_values THEN entity_values[entity_id] ELSE 0

RECURSIVE SumOver(_, _)
SumOver(S, f) ==
  IF S = {} THEN 0
  ELSE LET x == CHOOSE x \in S : TRUE IN f[x] + SumOver(S \ {x}, f)

(* contrib_bp of one override of latest_per_entity *)
contrib_bp(ov, entity_values, non_transfer_abs_total) ==
  IF Abs(EntityValue(entity_values, ov.entity_id)) = 0 THEN 0
  ELSE (((Abs(EntityValue(entity_values, ov.entity_id)) * 10000)
         \div non_transfer_abs_total) * weight_to_bp(ov.weight)) \div 10000

(* compute_override_penalty_bp without min(impact_bp, 7000) *)
compute_override_penalty_bp_no_cap(overrides, entity_values, non_transfer_abs_total) ==
  IF non_transfer_abs_total <= 0 THEN 0
  ELSE The({SumOver(latest,
                    [ov \in latest |->
                       contrib_bp(ov, entity_values, non_transfer_abs_total)])
            : latest \in {LatestPerEntity(overrides)}})

compute_override_penalty_bp(overrides, entity_values, non_transfer_abs_total) ==
  IF non_transfer_abs_total <= 0 THEN 0
  ELSE The({Min2(SumOver(latest,
                         [ov \in latest |->
                            contrib_bp(ov, entity_values, non_transfer_abs_total)]),
                 7000)
            : latest \in {LatestPerEntity(overrides)}})

(* compute_tier without the cap on High *)
compute_tier_no_cap(confidence_bp, reconciliation_status) ==
  [tier |-> IF confidence_bp >= 8500 THEN "High"
            ELSE IF confidence_bp >= 7000 THEN "Medium"
            ELSE "Low",
   capped |-> FALSE]

compute_tier(confidence_bp, reconciliation_status) ==
  LET tier == IF confidence_bp >= 8500 THEN "High"
              ELSE IF confidence_bp >= 7000 THEN "Medium"
              ELSE "Low"
  IN IF reconciliation_status # "OK" /\ tier = "High"
     THEN [tier |-> "Medium", capped |-> TRUE]
     ELSE [tier |-> tier, capped |-> FALSE]

finalize_confidence(base_after_months_bp, override_penalty_bp, reconciliation_status) ==
  The({[final_confidence_bp |-> Max2(0, base_after_months_bp - override_penalty_bp),
        tier |-> t.tier,
        tier_capped |-> t.capped,
        override_penalty_bp |-> override_penalty_bp]
       : t \in {compute_tier(Max2(0, base_after_months_bp - override_penalty_bp),
                             reconciliation_status)}})

(***************************************************************************)
(* core/pipeline.py                                                        *)
(***************************************************************************)
SCHEMA_VERSION == "1.0.0"

CONFIG_VERSION == "1.0.0"

LinkSortKey(l) == <<l.txn_out_id, l.txn_in_id>>

SortLinks(links) ==
  StableSort([i \in 1..Len(links) |-> [k |-> LinkSortKey(links[i]), v |-> links[i]]])

SortByTxnId(rows) ==
  StableSort([i \in 1..Len(rows) |-> [k |-> TxnIdKey(rows[i].txn_id), v |-> rows[i]]])

SortOverridesById(overrides) ==
  StableSort([i \in 1..Len(overrides) |->
                [k |-> <<overrides[i].id>>, v |-> overrides[i]]])

(* Step 3: tx["role"] = classify(tx), written into the caller's dicts *)
ClassifyAll(txs) == [i \in 1..Len(txs) |-> [txs[i] EXCEPT !.role = classify(txs[i])]]

(* Step 5: entity_values[eid] += abs(amount), over every tx of txs *)
EntityValues(txs, txn_entity_map) ==
  [e \in {txn_entity_map[txs[i].txn_id] : i \in 1..Len(txs)} |->
     SumSeq([i \in 1..Len(txs) |->
               IF txn_entity_map[txs[i].txn_id] = e
               THEN Abs(txs[i].signed_amount_cents) ELSE 0])]

(* Steps 5 and 6 and the result, from the classified rows and the entities *)
analysis_of(deal_id, txs, links, be, metrics, overrides, uuid) ==
  The({[run |->
          [id |-> uuid,
           deal_id |-> deal_id,
           state |-> "LIVE_DRAFT",
           schema_version |-> SCHEMA_VERSION,
           config_version |-> CONFIG_VERSION,
           run_trigger |-> "parse_complete",
           non_transfer_abs_total_cents |-> metrics.non_transfer_abs_total_cents,
           classified_abs_total_cents |-> metrics.classified_abs_total_cents,
           coverage_pct_bp |-> metrics.coverage_bp,
           missing_month_count |-> metrics.missing_month_count,
           missing_month_penalty_bp |-> metrics.missing_month_penalty_bp,
           override_penalty_bp |-> confidence.override_penalty_bp,
           reconciliation_status |-> metrics.reconciliation_status,
           reconciliation_pct_bp |-> metrics.reconciliation_bp,
           base_confidence_bp |-> metrics.base_confidence_bp,
           final_confidence_bp |-> confidence.final_confidence_bp,
           tier |-> confidence.tier,
           tier_capped |-> confidence.tier_capped,
           raw_transaction_hash |-> canonical_hash(SortByTxnId(txs)),
           transfer_links_hash |-> canonical_hash(SortLinks(links)),
           entities_hash |-> be.entities_hash,
           overrides_hash |-> canonical_hash(SortOverridesById(overrides)),
           bank_operational_inflow_cents |-> metrics.bank_operational_inflow_cents],
        links |-> links,
        entities |-> be.entities,
        txn_map |->
          [i \in 1..Len(txs) |->
             [deal_id |-> deal_id,
              txn_id |-> txs[i].txn_id,
              entity_id |-> be.txn_entity_map[txs[i].txn_id],
              role |-> txs[i].role,
              role_version |-> "v1_rules"]],
        txs |-> txs]
       : confidence \in
           {finalize_confidence(
              metrics.base_after_months_bp,
              compute_override_penalty_bp(overrides,
                                          EntityValues(txs, be.txn_entity_map),
                                          metrics.non_transfer_abs_total_cents),
              metrics.reconciliation_status)}})

(* Steps 2 to 4 on the rows and links match_transfers returns *)
pipeline_after_transfers(deal_id, mt, overrides, accrual, uuid) ==
  The({The({analysis_of(deal_id, txs, mt.links, be, metrics, overrides, uuid)
            : metrics \in {compute_metrics(txs, accrual)}})
       : be \in {build_entities(deal_id, mt.txs)}, txs \in {ClassifyAll(mt.txs)}})

(* run_pipeline; uuid is the value uuid.uuid4() returns in this call.         *)
(* .txs is the raw_transactions argument as the call leaves it (it is        *)
(* modified in place); .run, .links, .entities, .txn_map are the results.    *)
run_pipeline(deal_id, raw_transactions, overrides, accrual, uuid) ==
  The({pipeline_after_transfers(deal_id, mt, overrides, accrual, uuid)
       : mt \in {match_transfers(raw_transactions)}})

(***************************************************************************)
(* core/snapshot_engine.py                                                 *)
(***************************************************************************)
SortEntities(entities) ==
  StableSort([i \in 1..Len(entities) |->
                [k |-> EntityIdKey(entities[i].entity_id), v |-> entities[i]]])

SortTxnMap(txn_entity_map) ==
  StableSort([i \in 1..Len(txn_entity_map) |->
                [k |-> TxnIdKey(txn_entity_map[i].txn_id), v |-> txn_entity_map[i]]])

(* sorted(overrides_applied, key=lambda o: o.get("entity_id") or "") *)
SortOverridesByEntity(overrides) ==
  StableSort([i \in 1..Len(overrides) |->
                [k |-> EntityIdKey(overrides[i].entity_id), v |-> overrides[i]]])

build_financial_state_payload(deal_id, currency, transactions, transfer_links, entities, txn_entity_map, metrics, confidence) ==
  The({[schema_version |-> SCHEMA_VERSION,
        config_version |-> CONFIG_VERSION,
        deal_id |-> deal_id,
        currency |-> currency,
        raw_transaction_hash |-> canonical_hash(txs),
        transactions |-> txs,
        transfer_links |-> transfer_links,
        entities |-> entities,
        txn_entity_map |-> txn_entity_map,
        metrics |-> metrics,
        confidence |-> confidence]
       : txs \in {transactions}})

compute_financial_state_hash(payload) == canonical_hash(<<payload>>)

(* build_pds_payload that leaves the override history out of the payload *)
build_pds_payload_no_overrides(deal_id, currency, raw_transactions, transfer_links, entities, txn_entity_map, metrics, confidence, overrides_applied) ==
  The({[fs |-> financial_state_payload,
        financial_state_hash |-> compute_financial_state_hash(financial_state_payload),
        overrides_applied |-> <<>>]
       : financial_state_payload \in
           {build_financial_state_payload(
              deal_id, currency, sort_rows(raw_transactions), SortLinks(transfer_links),
              SortEntities(entities), SortTxnMap(txn_entity_map), metrics, confidence)}})

(* the payload dict: .fs are the outcome-only keys, to which the two keys    *)
(* financial_state_hash and overrides_applied are added                     *)
build_pds_payload(deal_id, currency, raw_transactions, transfer_links, entities, txn_entity_map, metrics, confidence, overrides_applied) ==
  The({[fs |-> financial_state_payload,
        financial_state_hash |-> compute_financial_state_hash(financial_state_payload),
        overrides_applied |-> SortOverridesByEntity(overrides_applied)]
       : financial_state_payload \in
           {build_financial_state_payload(
              deal_id, currency, sort_rows(raw_transactions), SortLinks(transfer_links),
              SortEntities(entities), SortTxnMap(txn_entity_map), metrics, confidence)}})

(* canonicalize_payload: (canonical_json, sha) *)
canonicalize_payload(payload) ==
  The({[canonical_json |-> <<"json", p>>, sha |-> canonical_hash(<<p>>)]
       : p \in {payload}})

(* the metrics= and confidence= arguments export builds from the run *)
MetricsBlock(run) ==
  [coverage_bp |-> run.coverage_pct_bp,
   missing_month_count |-> run.missing_month_count,
   missing_month_penalty_bp |-> run.missing_month_penalty_bp,
   reconciliation_status |-> run.reconciliation_status,
   reconciliation_bp |-> run.reconciliation_pct_bp]

ConfidenceBlock(run) ==
  [final_confidence_bp |-> run.final_confidence_bp,
   tier |-> run.tier,
   tier_capped |-> run.tier_capped,
   override_penalty_bp |-> run.override_penalty_bp]

PayloadOf(deal_id, currency, pr, overrides) ==
  build_pds_payload(deal_id, currency, pr.txs, pr.links, pr.entities, pr.txn_map,
                    MetricsBlock(pr.run), ConfidenceBlock(pr.run), overrides)

(***************************************************************************)
(* State                                                                   *)
(***************************************************************************)
VARIABLES
  repos,        \* the repositories of _repos(): one store per table
  now,          \* the clock that created_at is read from
  next_uuid,    \* the next value of uuid.uuid4()
  exports,      \* the export requests in flight: locals and position
  adders,       \* the add_override requests in flight
  tasks,        \* the background ingestion task of each uploaded document
  pure_in,      \* arguments of the direct run_pipeline calls
  pure_calls    \* the direct run_pipeline calls made so far

vars == <<repos, now, next_uuid, exports, adders, tasks, pure_in, pure_calls>>

sysvars == <<repos, now, exports, adders, tasks>>

DEAL == "d1"

CURRENCY == "USD"

(***************************************************************************)
(* Direct calls of run_pipeline and build_pds_payload on a list of rows    *)
(* and on a permutation of it.                                             *)
(***************************************************************************)
MaxRows == 3

(* rows as ingestion stores them: parsed, then document_id and deal_id set *)
StoredRow(document_id, date, cents, desc, account) ==
  [ParseRow(document_id, date, cents, desc, account) EXCEPT !.deal_id = DEAL]

RowUniverse ==
  {StoredRow(1, 20240101, 1000, "Revenue", "ACC-1"),
   StoredRow(1, 20240101, 1000, "REVENUE ", "ACC-1"),
   StoredRow(1, 20240102, -1000, "Supplier", "ACC-2"),
   StoredRow(1, 20240102, -400, "Supplier", "ACC-1"),
   StoredRow(1, 20240102, 400, "Client Payment", "ACC-2"),
   StoredRow(1, 20240315, 500, "Salary", "ACC-1"),
   StoredRow(1, 20240318, -500, "Supplier", "ACC-2")}

(* lists of distinct rows of the universe, of length 0..MaxRows *)
RowLists ==
  UNION {{s \in [1..n -> RowUniverse] : \A i, j \in 1..n : i # j => s[i] # s[j]} :
           n \in 0..MaxRows}

NoAccrual ==
  [accrual_revenue_cents |-> NULL, accrual_period_start |-> NULL,
   accrual_period_end |-> NULL]

Accrual2024Q1 ==
  [accrual_revenue_cents |-> 1000, accrual_period_start |-> 20240101,
   accrual_period_end |-> 20240102]

(* an override row as the overrides repository lists it *)
OverrideRow(id, entity_id, old_value, new_value, weight, created_at) ==
  [id |-> id, deal_id |-> DEAL, entity_id |-> entity_id, field |-> "role",
   old_value |-> old_value, new_value |-> new_value, weight |-> weight,
   created_at |-> created_at]

(* no override; one override of weight 1.0; that override and its revert *)
PureOverrideLists ==
  {<<>>,
   <<OverrideRow(901, EntityId(DEAL, "revenue"), "revenue_operational", "payroll",
                 "1.0", 1)>>,
   <<OverrideRow(901, EntityId(DEAL, "revenue"), "revenue_operational", "payroll",
                 "1.0", 1),
     OverrideRow(902, EntityId(DEAL, "revenue"), "payroll", "payroll", "0.0", 2)>>}

PermsOf(s) ==
  {[i \in 1..Len(s) |-> s[f[i]]] : f \in Permutations(1..Len(s))}

(* one call: the argument as passed, the argument as left, and the results *)
PureCall(txs, overrides, uuid) ==
  The({The({[arg |-> txs,
             overrides |-> overrides,
             arg_after |-> pr.txs,
             out |-> [run |-> pr.run, links |-> pr.links, entities |-> pr.entities,
                      txn_map |-> pr.txn_map],
             parse_hash |-> canonical_hash(sort_rows(txs)),
             canon |-> canonicalize_payload(payload)]
            : payload \in {PayloadOf(DEAL, CURRENCY, pr, overrides)}})
       : pr \in {run_pipeline(DEAL, txs, overrides, pure_in.accrual, uuid)}})

PureInit ==
  /\ pure_in \in [txs : RowLists, overrides : PureOverrideLists,
                  accrual : {NoAccrual, Accrual2024Q1}]
  /\ pure_calls = <<>>
  /\ next_uuid = 1

PureFirst ==
  /\ pure_calls = <<>>
  /\ pure_calls' = <<PureCall(pure_in.txs, pure_in.overrides, next_uuid)>>
  /\ next_uuid' = next_uuid + 1
  /\ UNCHANGED <<pure_in, sysvars>>

PureSecond ==
  /\ Len(pure_calls) = 1
  /\ \E txs \in PermsOf(pure_in.txs) :
       pure_calls' = Append(pure_calls, PureCall(txs, pure_in.overrides, next_uuid))
  /\ next_uuid' = next_uuid + 1
  /\ UNCHANGED <<pure_in, sysvars>>

(* a third call on the same rows with another override ledger *)
PureOtherLedger ==
  /\ Len(pure_calls) = 2
  /\ pure_calls[2].arg = pure_calls[1].arg
  /\ \E overrides \in PureOverrideLists \ {pure_in.overrides} :
       pure_calls' = Append(pure_calls, PureCall(pure_in.txs, overrides, next_uuid))
  /\ next_uuid' = next_uuid + 1
  /\ UNCHANGED <<pure_in, sysvars>>

(***************************************************************************)
(* db/memory_repositories.py, db/supabase_repositories.py                  *)
(***************************************************************************)
(* None where a row is expected *)
NoRow == [id |-> NULL]

(* None where a hash is expected *)
NoHash == <<>>

list_by_deal(store, deal_id) ==
  LET OfDeal(r) == r.deal_id = deal_id IN SelectSeq(store, OfDeal)

(* max((r.get("created_at") or "") for r in rows), None when there are no rows *)
get_latest_update_at(store, deal_id) ==
  LET rows == list_by_deal(store, deal_id)
  IN IF rows = <<>> THEN NULL
     ELSE SeqMax([i \in 1..Len(rows) |-> rows[i].created_at])

(* max(rows, key=lambda r: r.get("created_at") or ""): the first row of the maximum *)
LatestRow(store, deal_id) ==
  LET rows == list_by_deal(store, deal_id)
  IN IF rows = <<>> THEN NoRow
     ELSE rows[CHOOSE i \in 1..Len(rows) :
                 /\ \A j \in 1..Len(rows) : rows[j].created_at <= rows[i].created_at
                 /\ \A j \in 1..(i - 1) : rows[j].created_at < rows[i].created_at]

get_latest_snapshot(snapshots, deal_id) == LatestRow(snapshots, deal_id)

get_latest_run(runs, deal_id) == LatestRow(runs, deal_id)

(* get_by_hash that never finds the row *)
get_by_hash_blind(snapshots, sha256_hash) == NoRow

get_by_hash(snapshots, sha256_hash) ==
  IF \E i \in 1..Len(snapshots) : snapshots[i].sha256_hash = sha256_hash
  THEN snapshots[CHOOSE i \in 1..Len(snapshots) :
                   /\ snapshots[i].sha256_hash = sha256_hash
                   /\ \A j \in 1..(i - 1) : snapshots[j].sha256_hash # sha256_hash]
  ELSE NoRow

(* row = {**row, "created_at": row.get("created_at") or utcnow()}; store.append(row) *)
WithCreatedAt(row, created_at) ==
  [f \in DOMAIN row \cup {"created_at"} |->
     IF f = "created_at" THEN created_at ELSE row[f]]

InsertRow(store, row, created_at) == Append(store, WithCreatedAt(row, created_at))

(* DocumentsRepo.update_status: error fields are written when they are given *)
update_status(documents, document_id, status, currency_mismatch, error_type, error_stage, next_action) ==
  [i \in 1..Len(documents) |->
     IF documents[i].id = document_id
     THEN [documents[i] EXCEPT
             !.status = status,
             !.currency_mismatch = currency_mismatch,
             !.error_type = IF error_type # "absent" THEN error_type ELSE @,
             !.error_stage = IF error_stage # "absent" THEN error_stage ELSE @,
             !.next_action = IF next_action # "absent" THEN next_action ELSE @]
     ELSE documents[i]]

delete_eq(store, deal_id) ==
  LET Other(r) == r.deal_id # deal_id IN SelectSeq(store, Other)

(* dict keyed by key(row): an existing key keeps its place, a new one is appended *)
RECURSIVE Upsert(_, _, _)
Upsert(store, rows, field) ==
  IF rows = <<>> THEN store
  ELSE LET r == Head(rows)
           hit == {i \in 1..Len(store) : store[i][field] = r[field]}
           next == IF hit = {} THEN Append(store, r)
                   ELSE [i \in 1..Len(store) |-> IF i \in hit THEN r ELSE store[i]]
       IN Upsert(next, Tail(rows), field)

upsert_entities(store, entities) == Upsert(store, entities, "entity_id")

upsert_mappings(store, mappings) == Upsert(store, mappings, "txn_id")

(***************************************************************************)
(* The deal, its uploads and the requests                                  *)
(***************************************************************************)
MaxDocs == 2

MaxExports == 2

MaxOverrides == 2

MaxClock == 2

DealRow ==
  [id |-> DEAL, currency |-> CURRENCY, created_by |-> "analyst",
   accrual_revenue_cents |-> NULL, accrual_period_start |-> NULL,
   accrual_period_end |-> NULL]

(* accrual= argument of run_pipeline in export *)
AccrualOf(deal) ==
  [accrual_revenue_cents |-> deal.accrual_revenue_cents,
   accrual_period_start |-> deal.accrual_period_start,
   accrual_period_end |-> deal.accrual_period_end]

(* uploaded files, by what the parser makes of them: the exception that     *)
(* parse_amount_with_detection raises on an amount, or the rows (date,      *)
(* cents, description, account) that are returned                           *)
FileA ==
  [file_type |-> "csv", error |-> "none",
   rows |-> <<<<20240101, 1000, "Revenue", "ACC-1">>,
              <<20240102, -400, "Supplier", "ACC-1">>>>]

FileB ==
  [file_type |-> "csv", error |-> "none",
   rows |-> <<<<20240102, 400, "Client Payment", "ACC-2">>>>]

(* an amount "EUR 100" in a file of a deal in USD *)
FileWrongCurrency ==
  [file_type |-> "csv", error |-> "CurrencyMismatchError", rows |-> <<>>]

FileWrongCurrencyXlsx == [FileWrongCurrency EXCEPT !.file_type = "xlsx"]

FileWrongCurrencyPdf == [FileWrongCurrency EXCEPT !.file_type = "pdf"]

Files == {FileA, FileB, FileWrongCurrency}

NoException == [type |-> "none", message |-> ""]

(* check_currency_conflict inside parse_amount_with_detection: the message  *)
(* is f"Currency mismatch: found {iso}, expected {deal_currency}"           *)
check_currency_conflict(file) ==
  IF file.error = "CurrencyMismatchError"
  THEN [type |-> "CurrencyMismatchError",
        message |-> "Currency mismatch: found EUR, expected USD"]
  ELSE NoException

(* the try around parse_amount_with_detection in a parser:                  *)
(* except InvalidSchemaError: raise                                         *)
(* except Exception as exc: raise InvalidSchemaError(str(exc)) from exc     *)
reraise_as_invalid_schema(exc) ==
  IF exc.type \in {"none", "InvalidSchemaError"}
  THEN exc
  ELSE [type |-> "InvalidSchemaError", message |-> exc.message]

(* the exception parse_file raises: parse_csv, parse_xlsx and parse_pdf     *)
(* wrap the call of parse_amount_with_detection in the same try             *)
parse_file_exception(file) ==
  CASE file.file_type = "csv" -> reraise_as_invalid_schema(check_currency_conflict(file))
    [] file.file_type = "xlsx" -> reraise_as_invalid_schema(check_currency_conflict(file))
    [] file.file_type = "pdf" -> reraise_as_invalid_schema(check_currency_conflict(file))

(* "currency mismatch" in str(exc).lower() *)
mentions_currency_mismatch(message) ==
  message = "Currency mismatch: found EUR, expected USD"

(* parse_file on a readable file: canonical rows, sorted *)
parse_file(file, document_id) ==
  sort_rows([i \in 1..Len(file.rows) |->
               ParseRow(document_id, file.rows[i][1], file.rows[i][2],
                        file.rows[i][3], file.rows[i][4])])

(* created_at read from the clock: the present reading or a later one *)
Stamps == {t \in {now, now + 1} : t <= MaxClock}

(***************************************************************************)
(* api.py: upload_document                                                 *)
(***************************************************************************)
Upload(file) ==
  /\ Len(repos.documents) < MaxDocs
  /\ \E t \in Stamps :
       /\ repos' = [repos EXCEPT !.documents =
                      Append(@, [id |-> next_uuid, deal_id |-> DEAL,
                                 status |-> "processing",
                                 currency_mismatch |-> FALSE,
                                 error_type |-> "absent", error_stage |-> "absent",
                                 next_action |-> "absent", created_at |-> t])]
       /\ now' = t
  /\ tasks' = Append(tasks, [document_id |-> next_uuid, file |-> file,
                             pc |-> "parse", rows |-> <<>>])
  /\ next_uuid' = next_uuid + 1
  /\ UNCHANGED <<exports, adders, pure_in, pure_calls>>

(***************************************************************************)
(* ingestion/service.py: process_document_background                       *)
(***************************************************************************)
(* _update_failed *)
update_failed(documents, document_id, error_type, stage, next_action, currency_mismatch) ==
  update_status(documents, document_id, "failed", currency_mismatch, error_type,
                stage, next_action)

(* parse_file, then on success insert_batch(rows); an exception of         *)
(* parse_file goes to the except branch of its class, which calls          *)
(* _update_failed                                                          *)
TaskParse(k) ==
  /\ tasks[k].pc = "parse"
  /\ IF parse_file_exception(tasks[k].file).type = "CurrencyMismatchError"
     THEN /\ repos' = [repos EXCEPT !.documents =
                         update_failed(@, tasks[k].document_id, "CurrencyMismatchError",
                                       "PARSE_START", "fix_currency", TRUE)]
          /\ tasks' = [tasks EXCEPT ![k].pc = "done"]
     ELSE IF parse_file_exception(tasks[k].file).type = "InvalidSchemaError"
     THEN /\ repos' = [repos EXCEPT !.documents =
                         update_failed(@, tasks[k].document_id, "SchemaValidationError",
                                       "PARSE_START", "fix_csv_header",
                                       mentions_currency_mismatch(
                                         parse_file_exception(tasks[k].file).message))]
          /\ tasks' = [tasks EXCEPT ![k].pc = "done"]
     ELSE LET parsed == parse_file(tasks[k].file, tasks[k].document_id)
              rows == [i \in 1..Len(parsed) |-> [parsed[i] EXCEPT !.deal_id = DEAL]]
          IN /\ repos' = [repos EXCEPT !.raw = @ \o rows]
             /\ tasks' = [tasks EXCEPT ![k].pc = "update_status", ![k].rows = rows]
  /\ UNCHANGED <<now, next_uuid, exports, adders, pure_in, pure_calls>>

TaskUpdateStatus(k) ==
  /\ tasks[k].pc = "update_status"
  /\ repos' = [repos EXCEPT !.documents =
                 update_status(@, tasks[k].document_id, "completed", FALSE,
                               "absent", "absent", "absent")]
  /\ tasks' = [tasks EXCEPT ![k].pc = "insert_run"]
  /\ UNCHANGED <<now, next_uuid, exports, adders, pure_in, pure_calls>>

(* the LIVE_DRAFT placeholder run inserted after the status update *)
PlaceholderRun(id, rows) ==
  [id |-> id,
   deal_id |-> DEAL,
   state |-> "LIVE_DRAFT",
   schema_version |-> SCHEMA_VERSION,
   config_version |-> CONFIG_VERSION,
   run_trigger |-> "parse_complete",
   non_transfer_abs_total_cents |-> 0,
   classified_abs_total_cents |-> 0,
   coverage_pct_bp |-> 0,
   missing_month_count |-> 0,
   missing_month_penalty_bp |-> 0,
   override_penalty_bp |-> 0,
   reconciliation_status |-> "NOT_RUN",
   reconciliation_pct_bp |-> NONE_BP,
   base_confidence_bp |-> 0,
   final_confidence_bp |-> 0,
   tier |-> "Low",
   tier_capped |-> FALSE,
   raw_transaction_hash |-> canonical_hash(rows),
   transfer_links_hash |-> canonical_hash(<<>>),
   entities_hash |-> canonical_hash(<<>>),
   overrides_hash |-> canonical_hash(<<>>)]

TaskInsertRun(k) ==
  /\ tasks[k].pc = "insert_run"
  /\ \E t \in Stamps :
       /\ repos' = [repos EXCEPT !.runs =
                      InsertRow(@, PlaceholderRun(next_uuid, tasks[k].rows), t)]
       /\ now' = t
  /\ next_uuid' = next_uuid + 1
  /\ tasks' = [tasks EXCEPT ![k].pc = "done", ![k].rows = <<>>]
  /\ UNCHANGED <<exports, adders, pure_in, pure_calls>>

(***************************************************************************)
(* ingestion/service.py: a repository call of the task raises              *)
(***************************************************************************)
(* the class name of the exception a repository call raises *)
RepositoryError == "APIError"

(* except Exception: _update_failed(error_type=exc.__class__.__name__, ...); *)
(* inside it update_status may raise as well: except Exception: pass         *)
TaskExceptException(k, stage) ==
  /\ \E update_raises \in BOOLEAN :
       repos' = [repos EXCEPT !.documents =
                   IF update_raises
                   THEN @
                   ELSE update_failed(@, tasks[k].document_id, RepositoryError, stage,
                                      "retry_or_contact_support", FALSE)]
  /\ tasks' = [tasks EXCEPT ![k].pc = "done"]
  /\ UNCHANGED <<now, next_uuid, exports, adders, pure_in, pure_calls>>

(* raw_tx_repo.insert_batch(rows) raises: no row of the batch is stored *)
TaskInsertBatchRaises(k) ==
  /\ tasks[k].pc = "parse"
  /\ parse_file_exception(tasks[k].file).type = "none"
  /\ TaskExceptException(k, "DB_INSERT_START")

(* documents_repo.update_status(document_id, "completed") raises *)
TaskUpdateStatusRaises(k) ==
  /\ tasks[k].pc = "update_status"
  /\ TaskExceptException(k, "DB_INSERT_DONE")

(* analysis_repo.insert_run(...) raises after the status update *)
TaskInsertRunRaises(k) ==
  /\ tasks[k].pc = "insert_run"
  /\ TaskExceptException(k, "STATUS_COMPLETED")

(* parse_file raised: the update_status of _update_failed raises and is     *)
(* swallowed                                                                *)
TaskUpdateFailedRaises(k) ==
  /\ tasks[k].pc = "parse"
  /\ parse_file_exception(tasks[k].file).type # "none"
  /\ tasks' = [tasks EXCEPT ![k].pc = "done"]
  /\ UNCHANGED <<repos, now, next_uuid, exports, adders, pure_in, pure_calls>>

TaskRaises(k) ==
  \/ TaskInsertBatchRaises(k)
  \/ TaskUpdateStatusRaises(k)
  \/ TaskInsertRunRaises(k)
  \/ TaskUpdateFailedRaises(k)

(***************************************************************************)
(* api.py: add_override                                                    *)
(***************************************************************************)
REVENUE_ROLES == {"revenue_operational", "revenue_non_operational"}

(* a weight rule without the revert case *)
derive_override_weight_no_revert(old_role, new_value) ==
  LET old == IF old_role = "absent" THEN "" ELSE strip(old_role)
      new == strip(new_value)
  IN IF (old \in REVENUE_ROLES) # (new \in REVENUE_ROLES) THEN "1.0" ELSE "0.5"

derive_override_weight(old_role, new_value) ==
  LET old == IF old_role = "absent" THEN "" ELSE strip(old_role)
      new == strip(new_value)
  IN IF old = new THEN "0.0"
     ELSE IF (old \in REVENUE_ROLES) # (new \in REVENUE_ROLES) THEN "1.0"
     ELSE "0.5"

(* the first loop: new_value of the latest override of the entity, or None *)
EffectiveRoleFromOverrides(overrides, entity_id) ==
  LET srt == OverridesLatestFirst(overrides)
      hits == {i \in 1..Len(srt) : srt[i].entity_id = entity_id}
  IN IF hits = {} THEN "absent"
     ELSE srt[CHOOSE i \in hits : \A j \in hits : i <= j].new_value

(* the second loop: role of the first mapping of the entity, or None *)
EffectiveRoleFromTxnMap(txn_map, entity_id) ==
  LET hits == {i \in 1..Len(txn_map) : txn_map[i].entity_id = entity_id}
  IN IF hits = {} THEN "absent"
     ELSE txn_map[CHOOSE i \in hits : \A j \in hits : i <= j].role

IdleAdder ==
  [pc |-> "idle", entity_id |-> NoHash, new_value |-> "absent",
   ledger |-> <<>>, effective_role |-> "absent", override |-> NoRow]

(* entities and roles the analyst's requests name *)
OverrideTargets == {EntityId(DEAL, "revenue")}

OverrideValues == {"payroll", "revenue_operational"}

AddOverrideListOverrides(a, entity_id, new_value) ==
  /\ adders[a].pc = "idle"
  /\ \A b \in 1..(a - 1) : adders[b].pc # "idle"
  /\ LET ledger == list_by_deal(repos.overrides, DEAL)
         effective_role == EffectiveRoleFromOverrides(ledger, entity_id)
     IN adders' = [adders EXCEPT ![a] =
                     [@ EXCEPT !.pc = IF effective_role = "absent"
                                      THEN "list_txn_map" ELSE "insert",
                               !.entity_id = entity_id,
                               !.new_value = new_value,
                               !.ledger = ledger,
                               !.effective_role = effective_role]]
  /\ UNCHANGED <<repos, now, next_uuid, exports, tasks, pure_in, pure_calls>>

AddOverrideListTxnMap(a) ==
  /\ adders[a].pc = "list_txn_map"
  /\ adders' = [adders EXCEPT ![a] =
                  [@ EXCEPT !.pc = "insert",
                            !.effective_role =
                              EffectiveRoleFromTxnMap(list_by_deal(repos.txn_map, DEAL),
                                                      adders[a].entity_id)]]
  /\ UNCHANGED <<repos, now, next_uuid, exports, tasks, pure_in, pure_calls>>

AddOverrideInsert(a) ==
  /\ adders[a].pc = "insert"
  /\ \E t \in Stamps :
       LET ov == OverrideRow(next_uuid, adders[a].entity_id, adders[a].effective_role,
                             adders[a].new_value,
                             derive_override_weight(adders[a].effective_role,
                                                    adders[a].new_value), t)
       IN /\ repos' = [repos EXCEPT !.overrides = Append(@, ov)]
          /\ adders' = [adders EXCEPT ![a] = [@ EXCEPT !.pc = "done", !.override = ov]]
          /\ now' = t
  /\ next_uuid' = next_uuid + 1
  /\ UNCHANGED <<exports, tasks, pure_in, pure_calls>>

(***************************************************************************)
(* api.py: export, one step per repository call                            *)
(***************************************************************************)
NoResult == [code |-> "none", run |-> NoRow, snapshot |-> NoRow]

NoPipeline == [run |-> NoRow]

IdleExport ==
  [pc |-> "idle", ledger_at_start |-> <<>>, raw |-> <<>>, overrides |-> <<>>,
   latest_snapshot |-> NoRow, latest_doc_at |-> NULL, pr |-> NoPipeline,
   snapshot |-> NoRow, result |-> NoResult]

(* a gate that lets documents in processing through and stops only failed ones *)
not_ready_failed_only(docs) == {i \in 1..Len(docs) : docs[i].status = "failed"}

(* not_ready = [d for d in docs if d.get("status") != "completed"] *)
not_ready(docs) == {i \in 1..Len(docs) : docs[i].status # "completed"}

SetExport(p, e) == exports' = [exports EXCEPT ![p] = e]

(* docs = list_by_deal; refuse with 409 DOCUMENTS_NOT_READY when one is not completed *)
ExportListDocuments(p) ==
  /\ exports[p].pc = "idle"
  /\ \A q \in 1..(p - 1) : exports[q].pc # "idle"
  /\ LET docs == list_by_deal(repos.documents, DEAL)
     IN SetExport(p, [exports[p] EXCEPT
          !.ledger_at_start = list_by_deal(repos.overrides, DEAL),
          !.pc = IF not_ready(docs) # {} THEN "done" ELSE "list_raw",
          !.result = IF not_ready(docs) # {}
                     THEN [NoResult EXCEPT !.code = "DOCUMENTS_NOT_READY"]
                     ELSE @])
  /\ UNCHANGED <<repos, now, next_uuid, adders, tasks, pure_in, pure_calls>>

ExportListRaw(p) ==
  /\ exports[p].pc = "list_raw"
  /\ SetExport(p, [exports[p] EXCEPT !.pc = "list_overrides",
                                     !.raw = list_by_deal(repos.raw, DEAL)])
  /\ UNCHANGED <<repos, now, next_uuid, adders, tasks, pure_in, pure_calls>>

(* overrides = list_overrides; then 400 BAD_REQUEST when there are no rows *)
ExportListOverrides(p) ==
  /\ exports[p].pc = "list_overrides"
  /\ SetExport(p, [exports[p] EXCEPT
       !.overrides = list_by_deal(repos.overrides, DEAL),
       !.pc = IF exports[p].raw = <<>> THEN "done" ELSE "latest_snapshot",
       !.result = IF exports[p].raw = <<>>
                  THEN [NoResult EXCEPT !.code = "BAD_REQUEST"] ELSE @])
  /\ UNCHANGED <<repos, now, next_uuid, adders, tasks, pure_in, pure_calls>>

ExportLatestSnapshot(p) ==
  /\ exports[p].pc = "latest_snapshot"
  /\ SetExport(p, [exports[p] EXCEPT
       !.pc = "latest_doc_at",
       !.latest_snapshot = get_latest_snapshot(repos.snapshots, DEAL)])
  /\ UNCHANGED <<repos, now, next_uuid, adders, tasks, pure_in, pure_calls>>

ExportLatestDocAt(p) ==
  /\ exports[p].pc = "latest_doc_at"
  /\ SetExport(p, [exports[p] EXCEPT
       !.pc = "latest_override_at",
       !.latest_doc_at = get_latest_update_at(repos.documents, DEAL)])
  /\ UNCHANGED <<repos, now, next_uuid, adders, tasks, pure_in, pure_calls>>

(* the short-circuit test of lines 388-394 *)
snapshot_is_current(latest_snapshot, latest_doc_at, latest_override_at) ==
  /\ latest_snapshot # NoRow
  /\ latest_snapshot.created_at # NULL
  /\ (latest_doc_at = NULL \/ latest_snapshot.created_at >= latest_doc_at)
  /\ latest_snapshot.created_at > latest_override_at

ExportLatestOverrideAt(p) ==
  /\ exports[p].pc = "latest_override_at"
  /\ LET latest_override_at == get_latest_update_at(repos.overrides, DEAL)
     IN SetExport(p, [exports[p] EXCEPT
          !.pc = IF snapshot_is_current(exports[p].latest_snapshot,
                                        exports[p].latest_doc_at, latest_override_at)
                 THEN "latest_run" ELSE "pipeline"])
  /\ UNCHANGED <<repos, now, next_uuid, adders, tasks, pure_in, pure_calls>>

(* latest_run.id == latest_snapshot.analysis_run_id: answer with the stored snapshot *)
ExportLatestRun(p) ==
  /\ exports[p].pc = "latest_run"
  /\ LET latest_run == get_latest_run(repos.runs, DEAL)
         hit == /\ latest_run # NoRow
                /\ latest_run.id = exports[p].latest_snapshot.analysis_run_id
     IN SetExport(p, [exports[p] EXCEPT
          !.pc = IF hit THEN "done" ELSE "pipeline",
          !.result = IF hit
                     THEN [code |-> "OK", run |-> latest_run,
                           snapshot |-> exports[p].latest_snapshot]
                     ELSE @])
  /\ UNCHANGED <<repos, now, next_uuid, adders, tasks, pure_in, pure_calls>>

(* run_pipeline on the rows and overrides read, then txn_map.delete_eq *)
ExportPipeline(p) ==
  /\ exports[p].pc = "pipeline"
  /\ SetExport(p, [exports[p] EXCEPT
       !.pc = "delete_links",
       !.pr = run_pipeline(DEAL, exports[p].raw, exports[p].overrides,
                           AccrualOf(DealRow), next_uuid)])
  /\ next_uuid' = next_uuid + 1
  /\ repos' = [repos EXCEPT !.txn_map = delete_eq(@, DEAL)]
  /\ UNCHANGED <<now, adders, tasks, pure_in, pure_calls>>

ExportDeleteLinks(p) ==
  /\ exports[p].pc = "delete_links"
  /\ SetExport(p, [exports[p] EXCEPT !.pc = "insert_run"])
  /\ repos' = [repos EXCEPT !.links = delete_eq(@, DEAL)]
  /\ UNCHANGED <<now, next_uuid, adders, tasks, pure_in, pure_calls>>

(* run_for_db: the run without bank_operational_inflow_cents *)
run_for_db(run) ==
  [f \in DOMAIN run \ {"bank_operational_inflow_cents"} |-> run[f]]

ExportInsertRun(p) ==
  /\ exports[p].pc = "insert_run"
  /\ SetExport(p, [exports[p] EXCEPT !.pc = "insert_links"])
  /\ \E t \in Stamps :
       /\ repos' = [repos EXCEPT !.runs = InsertRow(@, run_for_db(exports[p].pr.run), t)]
       /\ now' = t
  /\ UNCHANGED <<next_uuid, adders, tasks, pure_in, pure_calls>>

ExportInsertLinks(p) ==
  /\ exports[p].pc = "insert_links"
  /\ SetExport(p, [exports[p] EXCEPT !.pc = "upsert_entities"])
  /\ repos' = [repos EXCEPT !.links = @ \o exports[p].pr.links]
  /\ UNCHANGED <<now, next_uuid, adders, tasks, pure_in, pure_calls>>

ExportUpsertEntities(p) ==
  /\ exports[p].pc = "upsert_entities"
  /\ SetExport(p, [exports[p] EXCEPT !.pc = "upsert_mappings"])
  /\ repos' = [repos EXCEPT !.entities = upsert_entities(@, exports[p].pr.entities)]
  /\ UNCHANGED <<now, next_uuid, adders, tasks, pure_in, pure_calls>>

ExportUpsertMappings(p) ==
  /\ exports[p].pc = "upsert_mappings"
  /\ SetExport(p, [exports[p] EXCEPT !.pc = "get_by_hash"])
  /\ repos' = [repos EXCEPT !.txn_map = upsert_mappings(@, exports[p].pr.txn_map)]
  /\ UNCHANGED <<now, next_uuid, adders, tasks, pure_in, pure_calls>>

(***************************************************************************)
(* snapshot_engine.py: export_snapshot, called at the end of export        *)
(***************************************************************************)
(* canonicalize the payload; return the stored row of that hash if there is one *)
ExportGetByHash(p) ==
  /\ exports[p].pc = "get_by_hash"
  /\ LET payload == PayloadOf(DEAL, DealRow.currency, exports[p].pr, exports[p].overrides)
         canon == canonicalize_payload(payload)
         existing == get_by_hash(repos.snapshots, canon.sha)
         snapshot == [id |-> next_uuid,
                      deal_id |-> DEAL,
                      analysis_run_id |-> exports[p].pr.run.id,
                      schema_version |-> payload.fs.schema_version,
                      config_version |-> payload.fs.config_version,
                      financial_state_hash |-> payload.financial_state_hash,
                      sha256_hash |-> canon.sha,
                      canonical_json |-> canon.canonical_json,
                      created_by |-> DealRow.created_by]
     IN IF existing # NoRow
        THEN /\ SetExport(p, [exports[p] EXCEPT
                  !.pc = "done",
                  !.result = [code |-> "OK", run |-> exports[p].pr.run,
                              snapshot |-> existing]])
             /\ UNCHANGED next_uuid
        ELSE /\ SetExport(p, [exports[p] EXCEPT !.pc = "insert_snapshot",
                                                !.snapshot = snapshot])
             /\ next_uuid' = next_uuid + 1
  /\ UNCHANGED <<repos, now, adders, tasks, pure_in, pure_calls>>

(* MemorySnapshotsRepo.insert_snapshot, first half: existing = get_by_hash(...) *)
ExportInsertSnapshotCheck(p) ==
  /\ exports[p].pc = "insert_snapshot"
  /\ LET existing == get_by_hash(repos.snapshots, exports[p].snapshot.sha256_hash)
     IN SetExport(p, [exports[p] EXCEPT
          !.pc = IF existing # NoRow THEN "done" ELSE "append_snapshot",
          !.result = IF existing # NoRow
                     THEN [code |-> "OK", run |-> exports[p].pr.run,
                           snapshot |-> existing]
                     ELSE @])
  /\ UNCHANGED <<repos, now, next_uuid, adders, tasks, pure_in, pure_calls>>

(* MemorySnapshotsRepo.insert_snapshot, second half: self._store.append(row) *)
ExportInsertSnapshotAppend(p) ==
  /\ exports[p].pc = "append_snapshot"
  /\ \E t \in Stamps :
       LET row == WithCreatedAt(exports[p].snapshot, t)
       IN /\ repos' = [repos EXCEPT !.snapshots = Append(@, row)]
          /\ SetExport(p, [exports[p] EXCEPT
               !.pc = "done",
               !.result = [code |-> "OK", run |-> exports[p].pr.run, snapshot |-> row]])
          /\ now' = t
  /\ UNCHANGED <<next_uuid, adders, tasks, pure_in, pure_calls>>

(***************************************************************************)
(* scripts/backfill_financial_state_hash.py                                *)
(***************************************************************************)
compute_financial_state_hash_from_canonical_json(canonical_json) ==
  LET data == canonical_json[2]
  IN compute_financial_state_hash(
       build_financial_state_payload(
         data.fs.deal_id, data.fs.currency, sort_rows(data.fs.transactions),
         SortLinks(data.fs.transfer_links), SortEntities(data.fs.entities),
         SortTxnMap(data.fs.txn_entity_map), data.fs.metrics, data.fs.confidence))

(* a backfill that writes the recomputed hash into sha256_hash as well *)
backfill_row_both_hashes(snap) ==
  IF snap.financial_state_hash # NoHash \/ snap.canonical_json = <<>>
  THEN snap
  ELSE [snap EXCEPT
          !.financial_state_hash =
            compute_financial_state_hash_from_canonical_json(snap.canonical_json),
          !.sha256_hash =
            compute_financial_state_hash_from_canonical_json(snap.canonical_json)]

(* the row as backfill() leaves it: skipped when the hash is there *)
backfill_row(snap) ==
  IF snap.financial_state_hash # NoHash \/ snap.canonical_json = <<>>
  THEN snap
  ELSE [snap EXCEPT !.financial_state_hash =
          compute_financial_state_hash_from_canonical_json(snap.canonical_json)]

Backfill ==
  /\ repos' = [repos EXCEPT !.snapshots =
                 [i \in 1..Len(@) |-> backfill_row(@[i])]]
  /\ UNCHANGED <<now, next_uuid, exports, adders, tasks, pure_in, pure_calls>>

(***************************************************************************)
(* The system                                                              *)
(***************************************************************************)
(* a snapshot of another deal, written before financial_state_hash existed *)
LegacyDeal == "d0"

LegacyPayload ==
  LET rows == <<[ParseRow(900, 20230105, 700, "Salary", "ACC-1")
                   EXCEPT !.deal_id = LegacyDeal]>>
      pr == run_pipeline(LegacyDeal, rows, <<>>, NoAccrual, 901)
  IN [PayloadOf(LegacyDeal, CURRENCY, pr, <<>>) EXCEPT !.financial_state_hash = NoHash]

LegacySnapshot ==
  [id |-> 902,
   deal_id |-> LegacyDeal,
   analysis_run_id |-> 901,
   schema_version |-> SCHEMA_VERSION,
   config_version |-> CONFIG_VERSION,
   financial_state_hash |-> NoHash,
   sha256_hash |-> canonicalize_payload(LegacyPayload).sha,
   canonical_json |-> canonicalize_payload(LegacyPayload).canonical_json,
   created_by |-> "analyst",
   created_at |-> 1]

NoPure == [txs |-> <<>>, overrides |-> <<>>, accrual |-> NoAccrual]

InitSystem ==
  /\ repos = [documents |-> <<>>, raw |-> <<>>, links |-> <<>>, entities |-> <<>>,
              txn_map |-> <<>>, overrides |-> <<>>, runs |-> <<>>,
              snapshots |-> <<LegacySnapshot>>]
  /\ now = 1
  /\ exports = [p \in 1..MaxExports |-> IdleExport]
  /\ adders = [a \in 1..MaxOverrides |-> IdleAdder]
  /\ tasks = <<>>

Init ==
  /\ InitSystem
  /\ next_uuid = 1
  /\ pure_in = NoPure
  /\ pure_calls = <<>>

(* the deal after FileA was uploaded and its ingestion task ran to the end *)
ReadyRepos ==
  LET rows == [i \in 1..Len(parse_file(FileA, 1)) |->
                 [parse_file(FileA, 1)[i] EXCEPT !.deal_id = DEAL]]
  IN [documents |-> <<[id |-> 1, deal_id |-> DEAL, status |-> "completed",
                       currency_mismatch |-> FALSE, error_type |-> "absent",
                       error_stage |-> "absent", next_action |-> "absent",
                       created_at |-> 1]>>,
      raw |-> rows,
      links |-> <<>>, entities |-> <<>>, txn_map |-> <<>>, overrides |-> <<>>,
      runs |-> InsertRow(<<>>, PlaceholderRun(2, rows), 1),
      snapshots |-> <<LegacySnapshot>>]

InitReady ==
  /\ repos = ReadyRepos
  /\ now = 1
  /\ next_uuid = 3
  /\ exports = [p \in 1..MaxExports |-> IdleExport]
  /\ adders = [a \in 1..MaxOverrides |-> IdleAdder]
  /\ tasks = <<[document_id |-> 1, file |-> FileA, pc |-> "done", rows |-> <<>>]>>
  /\ pure_in = NoPure
  /\ pure_calls = <<>>

TaskStep(k) ==
  \/ TaskParse(k)
  \/ TaskUpdateStatus(k)
  \/ TaskInsertRun(k)

AddOverrideStart(a) ==
  \E entity_id \in OverrideTargets, new_value \in OverrideValues :
    AddOverrideListOverrides(a, entity_id, new_value)

AddOverrideContinue(a) ==
  \/ AddOverrideListTxnMap(a)
  \/ AddOverrideInsert(a)

ExportContinue(p) ==
  \/ ExportListRaw(p)
  \/ ExportListOverrides(p)
  \/ ExportLatestSnapshot(p)
  \/ ExportLatestDocAt(p)
  \/ ExportLatestOverrideAt(p)
  \/ ExportLatestRun(p)
  \/ ExportPipeline(p)
  \/ ExportDeleteLinks(p)
  \/ ExportInsertRun(p)
  \/ ExportInsertLinks(p)
  \/ ExportUpsertEntities(p)
  \/ ExportUpsertMappings(p)
  \/ ExportGetByHash(p)
  \/ ExportInsertSnapshotCheck(p)
  \/ ExportInsertSnapshotAppend(p)

ExportStep(p) == ExportListDocuments(p) \/ ExportContinue(p)

(* a request is between its first and its last repository call *)
InFlight ==
  \/ \E p \in 1..MaxExports : exports[p].pc \notin {"idle", "done"}
  \/ \E a \in 1..MaxOverrides : adders[a].pc \notin {"idle", "done"}

(* One client of the ingested deal that waits for each response before its *)
(* next request; the backfill script runs at any time.                     *)
Next ==
  \/ ~InFlight /\ \E a \in 1..MaxOverrides : AddOverrideStart(a)
  \/ \E a \in 1..MaxOverrides : AddOverrideContinue(a)
  \/ ~InFlight /\ \E p \in 1..MaxExports : ExportListDocuments(p)
  \/ \E p \in 1..MaxExports : ExportContinue(p)
  \/ Backfill

Spec == InitReady /\ [][Next]_vars

(* concurrent export requests on the ingested deal *)
NextExports == \E p \in 1..MaxExports : ExportStep(p)

SpecExports == InitReady /\ [][NextExports]_vars

(* concurrent add_override requests on the ingested deal *)
NextAdders ==
  \/ \E a \in 1..MaxOverrides : AddOverrideStart(a)
  \/ \E a \in 1..MaxOverrides : AddOverrideContinue(a)

SpecAdders == InitReady /\ [][NextAdders]_vars

(* the deal after FileA and then FileB were uploaded and ingested: the rows *)
(* of 2024-01-02, -400 on ACC-1 and +400 on ACC-2, are a transfer pair      *)
ReadyReposBoth ==
  LET rows == [i \in 1..Len(parse_file(FileB, 3)) |->
                 [parse_file(FileB, 3)[i] EXCEPT !.deal_id = DEAL]]
  IN [ReadyRepos EXCEPT
        !.documents = Append(@, [ReadyRepos.documents[1] EXCEPT !.id = 3]),
        !.raw = @ \o rows,
        !.runs = InsertRow(@, PlaceholderRun(4, rows), 1)]

InitReadyBoth ==
  /\ repos = ReadyReposBoth
  /\ now = 1
  /\ next_uuid = 5
  /\ exports = [p \in 1..MaxExports |-> IdleExport]
  /\ adders = [a \in 1..MaxOverrides |-> IdleAdder]
  /\ tasks = <<[document_id |-> 1, file |-> FileA, pc |-> "done", rows |-> <<>>],
               [document_id |-> 3, file |-> FileB, pc |-> "done", rows |-> <<>>]>>
  /\ pure_in = NoPure
  /\ pure_calls = <<>>

(* concurrent export requests on the deal of two documents *)
SpecExportsBoth == InitReadyBoth /\ [][NextExports]_vars

(* concurrent export requests and one concurrent add_override request *)
NextRace ==
  \/ \E p \in 1..MaxExports : ExportStep(p)
  \/ AddOverrideStart(1)
  \/ AddOverrideContinue(1)

SpecRace == InitReady /\ [][NextRace]_vars

(* uploads and their ingestion tasks racing export requests made one after *)
(* the other                                                              *)
NextIngest ==
  \/ \E file \in Files : Upload(file)
  \/ \E k \in 1..Len(tasks) : TaskStep(k)
  \/ \E p \in 1..MaxExports :
       /\ \A q \in 1..(p - 1) : exports[q].pc = "done"
       /\ ExportStep(p)

SpecIngest == Init /\ [][NextIngest]_vars

(* uploads and their ingestion tasks, each repository call of a task either *)
(* returning or raising                                                     *)
NextFaults ==
  \/ \E file \in Files \cup {FileWrongCurrencyXlsx, FileWrongCurrencyPdf} : Upload(file)
  \/ \E k \in 1..Len(tasks) : TaskStep(k)
  \/ \E k \in 1..Len(tasks) : TaskRaises(k)

SpecFaults == Init /\ [][NextFaults]_vars

(* BackgroundTasks runs every task it was given to the end: a task that can *)
(* take a step takes one                                                    *)
SpecFaultsFair ==
  /\ SpecFaults
  /\ \A k \in 1..MaxDocs :
       WF_vars(k <= Len(tasks) /\ (TaskStep(k) \/ TaskRaises(k)))

(***************************************************************************)
(* run_pipeline and build_pds_payload called directly, twice               *)
(***************************************************************************)
InitPure == InitSystem /\ PureInit

NextPure == PureFirst \/ PureSecond \/ PureOtherLedger

SpecPure == InitPure /\ [][NextPure]_vars

(***************************************************************************)
(* run_pipeline and build_pds_payload called directly on one override      *)
(* ledger listed in two orders                                             *)
(***************************************************************************)
(* two overrides of the entity "revenue" created at t1 and t2 (NULL: the   *)
(* row has no created_at), and a pair on two entities                      *)
OrderOverrideLists ==
  {<<OverrideRow(901, EntityId(DEAL, "revenue"), "revenue_operational", "payroll",
                 "1.0", t[1]),
     OverrideRow(902, EntityId(DEAL, "revenue"), "payroll", "revenue_non_operational",
                 "0.5", t[2])>> : t \in {NULL, 1, 2} \X {NULL, 1, 2}}
  \cup
  {<<OverrideRow(901, EntityId(DEAL, "revenue"), "revenue_operational", "payroll",
                 "1.0", 1),
     OverrideRow(903, EntityId(DEAL, "supplier"), "supplier", "revenue_operational",
                 "1.0", 1)>>}

InitOrder ==
  /\ InitSystem
  /\ pure_in \in [txs : {s \in RowLists : Len(s) < MaxRows},
                  overrides : OrderOverrideLists,
                  accrual : {NoAccrual}]
  /\ pure_calls = <<>>
  /\ next_uuid = 1

(* a second call on the same rows with the overrides in another order *)
PureSecondOverrides ==
  /\ Len(pure_calls) = 1
  /\ \E overrides \in PermsOf(pure_in.overrides) :
       pure_calls' = Append(pure_calls, PureCall(pure_in.txs, overrides, next_uuid))
  /\ next_uuid' = next_uuid + 1
  /\ UNCHANGED <<pure_in, sysvars>>

NextOrder == PureFirst \/ PureSecondOverrides

SpecOverrideOrder == InitOrder /\ [][NextOrder]_vars

(***************************************************************************)
(* compute_override_penalty_bp, finalize_confidence and compute_metrics    *)
(* called directly, once, on arguments drawn from bounded sets             *)
(***************************************************************************)
MaxLedger == 2

(* pure_in is the call: the function and its arguments.  Override ledgers   *)
(* are lists of at most MaxLedger overrides on two entities with pairwise   *)
(* different created_at, in any order; rows carry the fields compute_metrics *)
(* reads.                                                                   *)
InitFunctions ==
  /\ InitSystem
  /\ next_uuid = 1
  /\ pure_calls = <<>>
  /\ pure_in \in
       [fn : {"compute_override_penalty_bp"},
        overrides :
          UNION {{s \in [1..n -> {OverrideRow(900 + o[3], o[1], "other", "payroll",
                                              o[2], o[3])
                                  : o \in {"e1", "e2"} \X {"0.0", "0.5", "1.0"}
                                          \X (1..MaxLedger)}] :
                    \A i, j \in 1..n : i # j => s[i].created_at # s[j].created_at}
                 : n \in 0..MaxLedger},
        entity_values : [{"e1", "e2"} -> {0, 400, 1000}],
        non_transfer_abs_total : {1000, 1400}]
       \cup
       [fn : {"finalize_confidence"},
        base_after_months_bp : {0, 6999, 7000, 8499, 8500, 10000},
        override_penalty_bp : {0, 1, 1500, 7000},
        reconciliation_status : {"OK", "NOT_RUN", "FAILED_OVERLAP"}]
       \cup
       [fn : {"compute_metrics"},
        transactions :
          UNION {{s \in [1..n -> {[txn_date |-> r[1], signed_amount_cents |-> r[2],
                                   role |-> r[3], is_transfer |-> r[4]]
                                  : r \in {<<20240115, 1000, "revenue_operational", "absent">>,
                                           <<20240210, 400, "other", "absent">>,
                                           <<20240315, -300, "payroll", "absent">>,
                                           <<20250105, 600, "revenue_operational", "true">>,
                                           <<20240120, -1000, "supplier", "true">>}}] :
                    \A i, j \in 1..n : i # j => s[i] # s[j]}
                 : n \in 0..MaxRows},
        accrual :
          {[accrual_revenue_cents |-> a[1], accrual_period_start |-> a[2],
            accrual_period_end |-> a[3]]
           : a \in {<<NULL, NULL, NULL>>,
                    <<-500, 20240115, 20240210>>,
                    <<1000, 20240115, NULL>>,
                    <<1200, 20240115, 20240210>>,
                    <<300, 20240115, 20240120>>,
                    <<1000, 20240113, 20240117>>,
                    <<1000, 20240110, 20240120>>,
                    <<1000, 20240201, 20240110>>}}]

CallComputeOverridePenalty ==
  /\ pure_in.fn = "compute_override_penalty_bp"
  /\ pure_calls = <<>>
  /\ pure_calls' = <<compute_override_penalty_bp(pure_in.overrides, pure_in.entity_values,
                                                 pure_in.non_transfer_abs_total)>>
  /\ UNCHANGED <<pure_in, next_uuid, sysvars>>

CallFinalizeConfidence ==
  /\ pure_in.fn = "finalize_confidence"
  /\ pure_calls = <<>>
  /\ pure_calls' = <<finalize_confidence(pure_in.base_after_months_bp,
                                         pure_in.override_penalty_bp,
                                         pure_in.reconciliation_status)>>
  /\ UNCHANGED <<pure_in, next_uuid, sysvars>>

CallComputeMetrics ==
  /\ pure_in.fn = "compute_metrics"
  /\ pure_calls = <<>>
  /\ pure_calls' = <<compute_metrics(pure_in.transactions, pure_in.accrual)>>
  /\ UNCHANGED <<pure_in, next_uuid, sysvars>>

NextFunctions ==
  \/ CallComputeOverridePenalty
  \/ CallFinalizeConfidence
  \/ CallComputeMetrics

SpecFunctions == InitFunctions /\ [][NextFunctions]_vars

(***************************************************************************)
(* Properties                                                              *)
(***************************************************************************)
Succeeded(p) == exports[p].pc = "done" /\ exports[p].result.code = "OK"

RowsWithHash(sha256_hash) ==
  {i \in 1..Len(repos.snapshots) : repos.snapshots[i].sha256_hash = sha256_hash}

(* C1: two successive exports that read the same rows and the same overrides *)
(* return a snapshot of the same id and sha256_hash, and the store holds one *)
(* row of that hash.                                                         *)
C1_ExportIdempotent ==
  \A p, q \in 1..MaxExports :
    (/\ p < q
     /\ Succeeded(p) /\ Succeeded(q)
     /\ exports[p].raw = exports[q].raw
     /\ exports[p].overrides = exports[q].overrides)
    => /\ exports[q].result.snapshot.id = exports[p].result.snapshot.id
       /\ exports[q].result.snapshot.sha256_hash = exports[p].result.snapshot.sha256_hash
       /\ Cardinality(RowsWithHash(exports[p].result.snapshot.sha256_hash)) = 1

C1_Witness ==
  /\ Succeeded(1) /\ Succeeded(2)
  /\ exports[1].raw = exports[2].raw
  /\ exports[1].overrides = exports[2].overrides
  /\ exports[1].pr # NoPipeline

(* C2: all concurrent exports of the unchanged deal succeed with the same   *)
(* snapshot id and sha256_hash, and one row of that hash is stored.         *)
C2_ConcurrentExportsOneRow ==
  /\ \A p \in 1..MaxExports : exports[p].pc = "done" => exports[p].result.code = "OK"
  /\ \A p, q \in 1..MaxExports :
       (Succeeded(p) /\ Succeeded(q))
       => /\ exports[q].result.snapshot.id = exports[p].result.snapshot.id
          /\ exports[q].result.snapshot.sha256_hash = exports[p].result.snapshot.sha256_hash
  /\ \A i, j \in 1..Len(repos.snapshots) :
       repos.snapshots[i].sha256_hash = repos.snapshots[j].sha256_hash => i = j

C4_ReadinessGate ==
  [][\A p \in 1..MaxExports :
       /\ (/\ exports[p].pc = "idle"
           /\ exports'[p].pc # "idle"
           /\ \E i \in 1..Len(repos.documents) : repos.documents[i].status = "processing")
          => /\ exports'[p].pc = "done"
             /\ exports'[p].result.code = "DOCUMENTS_NOT_READY"
             /\ exports'[p].pr = NoPipeline
             /\ repos' = repos
       /\ exports[p].result.code = "DOCUMENTS_NOT_READY" => exports'[p] = exports[p]]_vars

C4_Witness ==
  /\ exports[1].pc = "done"
  /\ exports[1].result.code = "DOCUMENTS_NOT_READY"
  /\ \E i \in 1..Len(repos.documents) : repos.documents[i].status = "processing"
  /\ \E i \in 1..Len(repos.documents) : repos.documents[i].status = "completed"

DocumentStatus(document_id) ==
  LET i == CHOOSE i \in 1..Len(repos.documents) : repos.documents[i].id = document_id
  IN repos.documents[i].status

(* C5: the rows an export reads are exactly the rows of the documents that  *)
(* are completed when it reads them, none of a document still in processing *)
C5_ExportReadsCompletedDocumentsOnly ==
  [][\A p \in 1..MaxExports :
       (exports[p].pc = "list_raw" /\ exports'[p].pc = "list_overrides")
       => /\ \A i \in 1..Len(exports'[p].raw) :
               DocumentStatus(exports'[p].raw[i].document_id) = "completed"
          /\ \A i \in 1..Len(repos.raw) :
               DocumentStatus(repos.raw[i].document_id) = "completed"
               => repos.raw[i] \in Range(exports'[p].raw)]_vars

(* the (sha256_hash, financial_state_hash) of the ingested deal under a ledger *)
LedgerPair(overrides) ==
  LET pr == run_pipeline(DEAL, ReadyRepos.raw, overrides, AccrualOf(DealRow), NULL)
      payload == PayloadOf(DEAL, DealRow.currency, pr, overrides)
  IN <<canonicalize_payload(payload).sha, payload.financial_state_hash>>

SnapshotPair(snapshot) == <<snapshot.sha256_hash, snapshot.financial_state_hash>>

(* C6: an export racing the add_override returns the pair of the ledger     *)
(* without the override or the pair of the ledger with it, and an export    *)
(* started when the override is stored returns the pair of the ledger with  *)
(* it.                                                                      *)
C6_ExportSeesOneLedgerState ==
  \A p \in 1..MaxExports :
    Succeeded(p)
    => /\ \/ SnapshotPair(exports[p].result.snapshot) = LedgerPair(<<>>)
          \/ /\ adders[1].pc = "done"
             /\ SnapshotPair(exports[p].result.snapshot) = LedgerPair(<<adders[1].override>>)
       /\ exports[p].ledger_at_start # <<>>
          => SnapshotPair(exports[p].result.snapshot) = LedgerPair(exports[p].ledger_at_start)

(* the first half of C6 alone: never a pair of neither ledger state *)
C6_NoMixture ==
  \A p \in 1..MaxExports :
    Succeeded(p)
    => \/ SnapshotPair(exports[p].result.snapshot) = LedgerPair(<<>>)
       \/ /\ adders[1].pc = "done"
          /\ SnapshotPair(exports[p].result.snapshot) = LedgerPair(<<adders[1].override>>)

(* C7: run_pipeline on a permutation of the rows, and the parser's sort on  *)
(* a permutation of a file's rows, give the same raw_transaction_hash and   *)
(* the same final_confidence_bp, rows that tie on the sort key included.    *)
C7_RowOrderInvariance ==
  Len(pure_calls) = 2
  => /\ pure_calls[2].out.run.raw_transaction_hash =
          pure_calls[1].out.run.raw_transaction_hash
     /\ pure_calls[2].parse_hash = pure_calls[1].parse_hash
     /\ pure_calls[2].out.run.final_confidence_bp =
          pure_calls[1].out.run.final_confidence_bp

(* the second half of C7 alone *)
C7_ConfidenceOrderInvariant ==
  Len(pure_calls) = 2
  => pure_calls[2].out.run.final_confidence_bp = pure_calls[1].out.run.final_confidence_bp

(* C8: the canonical_json and the sha256_hash of the payload built from a   *)
(* permutation of the rows are those built from the rows.                   *)
C8_PayloadOrderInvariance ==
  Len(pure_calls) = 2
  => /\ pure_calls[2].canon.canonical_json = pure_calls[1].canon.canonical_json
     /\ pure_calls[2].canon.sha = pure_calls[1].canon.sha

(* C9: run_pipeline leaves its arguments as they were, and two calls with   *)
(* equal arguments return equal runs (id included), links, entities and     *)
(* mappings.                                                                *)
C9_RunPipelinePure ==
  /\ \A c \in 1..Len(pure_calls) : pure_calls[c].arg_after = pure_calls[c].arg
  /\ (Len(pure_calls) = 2 /\ pure_calls[2].arg = pure_calls[1].arg)
     => pure_calls[2].out = pure_calls[1].out

(* C9 without the run id and without the state of the arguments *)
C9_SameOutputButId ==
  (Len(pure_calls) = 2 /\ pure_calls[2].arg = pure_calls[1].arg)
  => [pure_calls[2].out EXCEPT !.run.id = NULL] = [pure_calls[1].out EXCEPT !.run.id = NULL]

Ledger == list_by_deal(repos.overrides, DEAL)

(* the export made after both overrides has the confidence and the          *)
(* financial_state_hash of the export made before any override              *)
RevertRestores ==
  \A p, q \in 1..MaxExports :
    (/\ Succeeded(p) /\ Succeeded(q)
     /\ exports[p].overrides = <<>>
     /\ exports[q].overrides = <<Ledger[1], Ledger[2]>>
     /\ exports[q].raw = exports[p].raw)
    => /\ exports[q].result.run.final_confidence_bp =
            exports[p].result.run.final_confidence_bp
       /\ exports[q].result.snapshot.financial_state_hash =
            exports[p].result.snapshot.financial_state_hash

C10_RevertWhateverTheStamps ==
  (/\ Len(Ledger) >= 2
   /\ Ledger[1].weight = "1.0"
   /\ Ledger[2].entity_id = Ledger[1].entity_id
   /\ Ledger[2].new_value = Ledger[1].new_value)
  => RevertRestores

(* the financial_state_hash of the payload a direct call built *)
FinancialStateHashOf(call) == call.canon.canonical_json[2].financial_state_hash

(* two direct calls on the same rows whose override ledgers differ *)
LedgersDiffer(a, b) == a.arg = b.arg /\ a.overrides # b.overrides

(* C11: two runs over the same rows whose override histories differ have    *)
(* different sha256_hash; when their metrics and confidence blocks are      *)
(* equal (no override against apply-then-revert) their financial_state_hash *)
(* is equal.                                                                *)
C11_DualHash ==
  Len(pure_calls) = 3
  => (LedgersDiffer(pure_calls[1], pure_calls[3])
      => /\ pure_calls[3].canon.sha # pure_calls[1].canon.sha
         /\ (/\ MetricsBlock(pure_calls[3].out.run) = MetricsBlock(pure_calls[1].out.run)
             /\ ConfidenceBlock(pure_calls[3].out.run) =
                  ConfidenceBlock(pure_calls[1].out.run))
            => FinancialStateHashOf(pure_calls[3]) = FinancialStateHashOf(pure_calls[1]))

(* no override against apply-then-revert on an entity that carries volume:  *)
(* one financial_state_hash, two sha256_hash                                *)
C11_Witness ==
  /\ Len(pure_calls) = 3
  /\ pure_calls[1].overrides = <<>>
  /\ Len(pure_calls[3].overrides) = 2
  /\ pure_calls[1].out.run.final_confidence_bp > 0
  /\ \E i \in 1..Len(pure_calls[1].arg_after) :
       /\ pure_calls[1].arg_after[i].normalized_descriptor = "revenue"
       /\ pure_calls[1].arg_after[i].is_transfer # "true"
  /\ FinancialStateHashOf(pure_calls[3]) = FinancialStateHashOf(pure_calls[1])
  /\ pure_calls[3].canon.sha # pure_calls[1].canon.sha

(* a positive row p and a negative row n of the same absolute amount, on    *)
(* different accounts, at most 2 days apart                                 *)
CounterParts(txs, p, n) ==
  /\ txs[p].signed_amount_cents > 0
  /\ txs[n].signed_amount_cents < 0
  /\ txs[p].signed_amount_cents = 0 - txs[n].signed_amount_cents
  /\ txs[p].account_id # txs[n].account_id
  /\ date_diff_days(txs[p].txn_date, txs[n].txn_date) <= 2

(* the pairs <<p, n>> in which each side is the only counterpart of the other *)
UniquePairs(txs) ==
  {pn \in (1..Len(txs)) \X (1..Len(txs)) :
     /\ CounterParts(txs, pn[1], pn[2])
     /\ \A m \in 1..Len(txs) : CounterParts(txs, pn[1], m) => m = pn[2]
     /\ \A q \in 1..Len(txs) : CounterParts(txs, q, pn[2]) => q = pn[1]}

(* the marks and the links of one call are those of the unique pairs *)
MarksUniquePairs(call) ==
  /\ \A k \in 1..Len(call.arg) :
       IF \E pn \in UniquePairs(call.arg) : k = pn[1] \/ k = pn[2]
       THEN call.arg_after[k].is_transfer = "true"
       ELSE /\ call.arg_after[k].is_transfer = call.arg[k].is_transfer
            /\ call.arg_after[k].is_transfer # "true"
  /\ Len(call.out.links) = Cardinality(UniquePairs(call.arg))
  /\ \A pn \in UniquePairs(call.arg) :
       Cardinality({q \in 1..Len(call.out.links) :
                      call.out.links[q].abs_amount_cents =
                        call.arg[pn[1]].signed_amount_cents})
       = Cardinality({qm \in UniquePairs(call.arg) :
                        call.arg[qm[1]].signed_amount_cents =
                          call.arg[pn[1]].signed_amount_cents})
  /\ \A pn, qm \in UniquePairs(call.arg) :
       pn # qm => {pn[1], pn[2]} \cap {qm[1], qm[2]} = {}

(* C12: match_transfers marks a positive and a negative row, and emits one  *)
(* link for them, exactly when they have the same absolute amount, different *)
(* accounts, dates at most 2 days apart and each is the other's only such   *)
(* candidate; every other row keeps its is_transfer, and no row is in two   *)
(* links.                                                                   *)
C12_TransferPairsExactlyUnique ==
  \A c \in 1..Len(pure_calls) : MarksUniquePairs(pure_calls[c])

(* one pair is marked and linked while a third row stays unmarked *)
C12_Witness ==
  /\ Len(pure_calls) >= 1
  /\ Len(pure_calls[1].arg) = 3
  /\ Len(pure_calls[1].out.links) = 1
  /\ Cardinality({k \in 1..3 : pure_calls[1].arg_after[k].is_transfer = "true"}) = 2
  /\ Cardinality({k \in 1..3 : pure_calls[1].arg_after[k].is_transfer = "absent"}) = 1

(* sum of f over the rows of a call that are not marked as transfers *)
NonTransferSum(call, f) ==
  SumSeq([i \in 1..Len(call.arg_after) |->
            IF call.arg_after[i].is_transfer # "true" THEN f[i] ELSE 0])

(* per entity, the absolute volume of its rows that are not transfers *)
NonTransferVolumes(call) ==
  [e \in {call.out.txn_map[i].entity_id : i \in 1..Len(call.out.txn_map)} |->
     NonTransferSum(call, [i \in 1..Len(call.arg_after) |->
                             IF call.out.txn_map[i].entity_id = e
                             THEN Abs(call.arg_after[i].signed_amount_cents) ELSE 0])]

(* the three totals of the metrics sum over the rows that are not transfers *)
MetricsExcludeTransfers(call) ==
  /\ call.out.run.non_transfer_abs_total_cents =
       NonTransferSum(call, [i \in 1..Len(call.arg_after) |->
                               Abs(call.arg_after[i].signed_amount_cents)])
  /\ call.out.run.classified_abs_total_cents =
       NonTransferSum(call, [i \in 1..Len(call.arg_after) |->
                               IF call.arg_after[i].role # "other"
                               THEN Abs(call.arg_after[i].signed_amount_cents) ELSE 0])
  /\ call.out.run.bank_operational_inflow_cents =
       NonTransferSum(call, [i \in 1..Len(call.arg_after) |->
                               IF /\ call.arg_after[i].signed_amount_cents > 0
                                  /\ call.arg_after[i].role = "revenue_operational"
                               THEN call.arg_after[i].signed_amount_cents ELSE 0])

(* C13: the non-transfer total, the classified total, the operational       *)
(* inflow and the per-entity volume behind the override penalty of every    *)
(* run sum over the rows that are not matched as transfers.                 *)
C13_TransfersExcludedFromTotals ==
  \A c \in 1..Len(pure_calls) :
    /\ MetricsExcludeTransfers(pure_calls[c])
    /\ pure_calls[c].out.run.override_penalty_bp =
         compute_override_penalty_bp(pure_calls[c].overrides,
                                     NonTransferVolumes(pure_calls[c]),
                                     pure_calls[c].out.run.non_transfer_abs_total_cents)

(* the part of C13 about the metrics alone *)
C13_MetricsTotalsExcludeTransfers ==
  \A c \in 1..Len(pure_calls) : MetricsExcludeTransfers(pure_calls[c])

(* a direct call of fn has returned *)
Returned(fn) == pure_in.fn = fn /\ pure_calls # <<>>

(* C14: for every override list, every assignment of entity volumes and     *)
(* every positive non-transfer total, override_penalty_bp is at most 7000;  *)
(* one override of weight 1.0 on an entity whose volume is the whole total  *)
(* gives exactly 7000.                                                      *)
C14_OverrideCap ==
  Returned("compute_override_penalty_bp")
  => /\ pure_calls[1] <= 7000
     /\ (/\ Len(pure_in.overrides) = 1
         /\ pure_in.overrides[1].weight = "1.0"
         /\ pure_in.entity_values[pure_in.overrides[1].entity_id] =
              pure_in.non_transfer_abs_total)
        => pure_calls[1] = 7000

(* one override of weight 1.0 on the entity that holds the whole total: 7000 *)
C14_Witness ==
  /\ Returned("compute_override_penalty_bp")
  /\ Len(pure_in.overrides) = 1
  /\ pure_in.overrides[1].weight = "1.0"
  /\ pure_in.entity_values[pure_in.overrides[1].entity_id] = pure_in.non_transfer_abs_total
  /\ pure_calls[1] = 7000

(* the ledger reduced to, for each entity, its override of maximum created_at *)
ReducedLedger(overrides) ==
  LET IsLatest(ov) ==
        \A i \in 1..Len(overrides) :
          overrides[i].entity_id = ov.entity_id => overrides[i].created_at <= ov.created_at
  IN SelectSeq(overrides, IsLatest)

(* C15: the override penalty of a ledger is the penalty of the ledger       *)
(* reduced to the override of maximum created_at of each entity: earlier    *)
(* overrides of an entity contribute nothing and weights are not combined.  *)
C15_LatestOverrideWins ==
  Returned("compute_override_penalty_bp")
  => pure_calls[1] =
       compute_override_penalty_bp(ReducedLedger(pure_in.overrides),
                                   pure_in.entity_values,
                                   pure_in.non_transfer_abs_total)

(* an entity with volume has an override of weight 1.0 and a later one of   *)
(* weight 0.5 that comes first in the list: the penalty is that of the later *)
C15_Witness ==
  /\ Returned("compute_override_penalty_bp")
  /\ Len(pure_in.overrides) = 2
  /\ pure_in.overrides[1].entity_id = pure_in.overrides[2].entity_id
  /\ pure_in.overrides[1].created_at > pure_in.overrides[2].created_at
  /\ pure_in.overrides[1].weight = "0.5"
  /\ pure_in.overrides[2].weight = "1.0"
  /\ pure_in.entity_values[pure_in.overrides[1].entity_id] = 400
  /\ pure_in.non_transfer_abs_total = 1000
  /\ pure_calls[1] = 2000

(* the roles the classifier assigns to the stored rows of an entity *)
ClassifierRoles(entity_id) ==
  LET txs == ClassifyAll(match_transfers(list_by_deal(repos.raw, DEAL)).txs)
  IN {txs[i].role : i \in {i \in 1..Len(txs) :
                             EntityId(DEAL, EntityName(txs, i)) = entity_id}}

(* the currently effective role of an entity under a ledger: the new_value  *)
(* of its override of maximum created_at, otherwise the classifier's role   *)
EffectiveRoles(ledger, entity_id) ==
  LET own == {i \in 1..Len(ledger) : ledger[i].entity_id = entity_id}
  IN IF own = {} THEN ClassifierRoles(entity_id)
     ELSE {ledger[i].new_value :
             i \in {i \in own : \A j \in own : ledger[j].created_at <= ledger[i].created_at}}

(* the weight rule in the words of the claim *)
WeightOfTransition(role, new_value) ==
  IF new_value = role THEN "0.0"
  ELSE IF (role \in {"revenue_operational", "revenue_non_operational"})
          # (new_value \in {"revenue_operational", "revenue_non_operational"})
    THEN "1.0"
  ELSE "0.5"

(* C16: whenever add_override is called, before or after the first export,  *)
(* with or without earlier overrides of the entity, the recorded weight is  *)
(* 0.0 when new_value is the entity's effective role (latest override's     *)
(* new_value, otherwise the classifier's role), 1.0 when exactly one of the *)
(* two is a revenue role, 0.5 otherwise.                                    *)
C16_WeightFromEffectiveRole ==
  \A a \in 1..MaxOverrides :
    adders[a].pc = "done"
    => \E role \in EffectiveRoles(adders[a].ledger, adders[a].entity_id) :
         adders[a].override.weight = WeightOfTransition(role, adders[a].new_value)

(* C16 for the calls that found an override or a mapping of the entity *)
C16_WeightWhenRoleIsStored ==
  \A a \in 1..MaxOverrides :
    (adders[a].pc = "done" /\ adders[a].effective_role # "absent")
    => \E role \in EffectiveRoles(adders[a].ledger, adders[a].entity_id) :
         adders[a].override.weight = WeightOfTransition(role, adders[a].new_value)

(* C17: tier = High implies reconciliation_status = OK and                  *)
(* final_confidence_bp >= 8500; tier_capped holds exactly when              *)
(* final_confidence_bp >= 8500 and the status is not OK, and then the tier  *)
(* is Medium; otherwise the tier is Medium from 7000 up to 8499 and Low     *)
(* below 7000.                                                              *)
C17_TierAndCap ==
  Returned("finalize_confidence")
  => /\ pure_calls[1].tier = "High"
        => /\ pure_in.reconciliation_status = "OK"
           /\ pure_calls[1].final_confidence_bp >= 8500
     /\ pure_calls[1].tier_capped
        <=> /\ pure_calls[1].final_confidence_bp >= 8500
            /\ pure_in.reconciliation_status # "OK"
     /\ pure_calls[1].tier_capped => pure_calls[1].tier = "Medium"
     /\ (~pure_calls[1].tier_capped /\ pure_calls[1].tier # "High")
        => pure_calls[1].tier = IF pure_calls[1].final_confidence_bp >= 7000
                                   /\ pure_calls[1].final_confidence_bp < 8500
                                THEN "Medium"
                                ELSE "Low"
     /\ (~pure_calls[1].tier_capped /\ pure_calls[1].tier # "High")
        => pure_calls[1].final_confidence_bp < 8500

(* a final confidence of 8500 with a failed overlap: Medium, capped *)
C17_Witness ==
  /\ Returned("finalize_confidence")
  /\ pure_in.reconciliation_status = "FAILED_OVERLAP"
  /\ pure_calls[1].final_confidence_bp = 8500
  /\ pure_calls[1].tier = "Medium"
  /\ pure_calls[1].tier_capped

(* C18: when the non-transfer absolute total is 0 (no rows, or every row    *)
(* matched as a transfer), whatever the accrual and the overrides,          *)
(* run_pipeline gives coverage_bp = 0, reconciliation_status = NOT_RUN,     *)
(* override_penalty_bp = 0, final_confidence_bp = 0 and tier = Low.         *)
C18_ZeroDenominator ==
  \A c \in 1..Len(pure_calls) :
    NonTransferSum(pure_calls[c],
                   [i \in 1..Len(pure_calls[c].arg_after) |->
                      Abs(pure_calls[c].arg_after[i].signed_amount_cents)]) = 0
    => /\ pure_calls[c].out.run.coverage_pct_bp = 0
       /\ pure_calls[c].out.run.reconciliation_status = "NOT_RUN"
       /\ pure_calls[c].out.run.override_penalty_bp = 0
       /\ pure_calls[c].out.run.final_confidence_bp = 0
       /\ pure_calls[c].out.run.tier = "Low"

(* every row is matched as a transfer, an accrual is declared and an        *)
(* override of weight 1.0 is on the entity of one of the rows               *)
C18_Witness ==
  /\ Len(pure_calls) >= 1
  /\ Len(pure_calls[1].arg) = 2
  /\ \A i \in 1..2 : pure_calls[1].arg_after[i].is_transfer = "true"
  /\ \E i \in 1..2 : pure_calls[1].arg[i].normalized_descriptor = "revenue"
  /\ Len(pure_calls[1].overrides) = 1
  /\ pure_in.accrual.accrual_revenue_cents = 1000
  /\ pure_calls[1].out.run.tier = "Low"

(* no rows at all *)
C18_EmptyRun ==
  /\ Len(pure_calls) >= 1
  /\ pure_calls[1].arg = <<>>
  /\ pure_calls[1].out.run.final_confidence_bp = 0

(* the calendar month of a date, counted from year 0 *)
MonthIndex(d) == YearOf(d) * 12 + MonthOf(d)

(* the months strictly between the month of the first and the month of the  *)
(* last date of the rows                                                    *)
InteriorMonths(txs) ==
  IF txs = <<>> THEN {}
  ELSE (MonthIndex(SeqMin([i \in 1..Len(txs) |-> txs[i].txn_date])) + 1)
       ..(MonthIndex(SeqMax([i \in 1..Len(txs) |-> txs[i].txn_date])) - 1)

(* the interior months in which no row is dated *)
EmptyInteriorMonths(txs) ==
  {m \in InteriorMonths(txs) : \A i \in 1..Len(txs) : MonthIndex(txs[i].txn_date) # m}

(* C19: missing_month_count is the number of calendar months strictly       *)
(* between the month of the first and of the last transaction date that     *)
(* contain no transaction (an interior month with a transaction is not      *)
(* counted), and missing_month_penalty_bp = min(missing_month_count * 1000, *)
(* 5000).                                                                   *)
C19_MissingMonthsAreEmptyMonths ==
  Returned("compute_metrics")
  => /\ pure_calls[1].missing_month_count =
          Cardinality(EmptyInteriorMonths(pure_in.transactions))
     /\ pure_calls[1].missing_month_penalty_bp =
          Min2(pure_calls[1].missing_month_count * 1000, 5000)

(* what the code counts: every interior month, when the non-transfer total  *)
(* is not 0                                                                 *)
C19_CountsEveryInteriorMonth ==
  (Returned("compute_metrics") /\ pure_calls[1].non_transfer_abs_total_cents # 0)
  => /\ pure_calls[1].missing_month_count =
          Cardinality(InteriorMonths(pure_in.transactions))
     /\ pure_calls[1].missing_month_penalty_bp =
          Min2(pure_calls[1].missing_month_count * 1000, 5000)

(* a positive accrual revenue and both ends of the accrual period are declared *)
AccrualDeclared(accrual) ==
  /\ accrual.accrual_revenue_cents # NULL
  /\ accrual.accrual_revenue_cents > 0
  /\ accrual.accrual_period_start # NULL
  /\ accrual.accrual_period_end # NULL

(* length in days of the accrual period *)
AccrualDays(accrual) ==
  DayNum(accrual.accrual_period_end) - DayNum(accrual.accrual_period_start) + 1

(* days the observed date range of the rows shares with the accrual period *)
OverlapDays(txs, accrual) ==
  IF txs = <<>> THEN 0
  ELSE Max2(0, DayNum(Min2(SeqMax([i \in 1..Len(txs) |-> txs[i].txn_date]),
                           accrual.accrual_period_end))
               - DayNum(Max2(SeqMin([i \in 1..Len(txs) |-> txs[i].txn_date]),
                             accrual.accrual_period_start)) + 1)

(* sum of the positive revenue_operational amounts that are not transfers *)
OperationalInflow(txs) ==
  SumSeq([i \in 1..Len(txs) |->
            IF /\ txs[i].is_transfer # "true"
               /\ txs[i].signed_amount_cents > 0
               /\ txs[i].role = "revenue_operational"
            THEN txs[i].signed_amount_cents ELSE 0])

(* the status by the decision list of the claim *)
StatusAsClaimed(txs, accrual) ==
  IF ~AccrualDeclared(accrual) THEN "NOT_RUN"
  ELSE IF OverlapDays(txs, accrual) * 100 < 60 * AccrualDays(accrual) THEN "FAILED_OVERLAP"
  ELSE IF OperationalInflow(txs) <= 0 THEN "NOT_RUN"
  ELSE "OK"

(* the decision list with the two cases the code decides first *)
StatusAsComputed(txs, accrual) ==
  IF SumSeq([i \in 1..Len(txs) |->
               IF txs[i].is_transfer # "true" THEN Abs(txs[i].signed_amount_cents) ELSE 0]) = 0
  THEN "NOT_RUN"
  ELSE IF ~AccrualDeclared(accrual) THEN "NOT_RUN"
  ELSE IF AccrualDays(accrual) <= 0 THEN "FAILED_OVERLAP"
  ELSE StatusAsClaimed(txs, accrual)

(* reconciliation_bp in the OK case, and base_confidence_bp *)
ReconciliationValues(m, accrual) ==
  /\ m.reconciliation_status = "OK"
     => m.reconciliation_bp =
          Max2(0, 10000 - ((Abs(accrual.accrual_revenue_cents
                                - m.bank_operational_inflow_cents) * 10000)
                           \div accrual.accrual_revenue_cents))
  /\ m.base_confidence_bp = IF m.reconciliation_status = "OK"
                            THEN Min2(m.coverage_bp, m.reconciliation_bp)
                            ELSE m.coverage_bp

(* C20: reconciliation_status is NOT_RUN when the accrual revenue is absent *)
(* or not positive or the period is not declared; otherwise FAILED_OVERLAP  *)
(* when the overlap of the observed date range with the accrual period is   *)
(* below 60% of the period; otherwise NOT_RUN when the operational inflow   *)
(* is <= 0; otherwise OK with reconciliation_bp = max(0, 10000 -            *)
(* floor(|accrual - inflow| * 10000 / accrual)); base_confidence_bp is      *)
(* min(coverage_bp, reconciliation_bp) in the OK case, coverage_bp else.    *)
C20_ReconciliationDecision ==
  Returned("compute_metrics")
  => /\ pure_calls[1].reconciliation_status =
          StatusAsClaimed(pure_in.transactions, pure_in.accrual)
     /\ ReconciliationValues(pure_calls[1], pure_in.accrual)

(* C20 amended: NOT_RUN when the non-transfer total is 0, and               *)
(* FAILED_OVERLAP when the declared accrual period has no days, before the  *)
(* decision list of the claim applies                                       *)
C20_ReconciliationDecisionOnVolume ==
  Returned("compute_metrics")
  => /\ pure_calls[1].reconciliation_status =
          StatusAsComputed(pure_in.transactions, pure_in.accrual)
     /\ pure_calls[1].bank_operational_inflow_cents =
          (IF pure_calls[1].non_transfer_abs_total_cents = 0 THEN 0
           ELSE OperationalInflow(pure_in.transactions))
     /\ ReconciliationValues(pure_calls[1], pure_in.accrual)

(* the accrual period is covered, the inflow is 1000 against 1200 declared: *)
(* OK, reconciliation_bp 8334 below the coverage, base_confidence_bp 8334   *)
C20_Witness ==
  /\ Returned("compute_metrics")
  /\ pure_in.accrual.accrual_revenue_cents = 1200
  /\ pure_calls[1].reconciliation_status = "OK"
  /\ pure_calls[1].bank_operational_inflow_cents = 1000
  /\ pure_calls[1].reconciliation_bp = 8334
  /\ pure_calls[1].coverage_bp = 10000
  /\ pure_calls[1].base_confidence_bp = 8334

(* the sha256_hash of the snapshot of the deal for the rows and overrides read *)
PayloadSha(raw, overrides) ==
  LET pr == run_pipeline(DEAL, raw, overrides, AccrualOf(DealRow), NULL)
  IN canonicalize_payload(PayloadOf(DEAL, DealRow.currency, pr, overrides)).sha

(* a stored snapshot of what export p read, created after every document *)
(* and every override of the deal                                        *)
SnapshotOfStateRead(p) ==
  \E i \in 1..Len(repos.snapshots) :
    /\ repos.snapshots[i].deal_id = DEAL
    /\ repos.snapshots[i].sha256_hash = PayloadSha(exports[p].raw, exports[p].overrides)
    /\ \A d \in 1..Len(repos.documents) :
         repos.documents[d].created_at < repos.snapshots[i].created_at
    /\ \A o \in 1..Len(repos.overrides) :
         repos.overrides[o].created_at < repos.snapshots[i].created_at

(* C21: an export issued when a snapshot of the deal's current state is     *)
(* stored, and no document and no override was added after that snapshot,  *)
(* does not invoke run_pipeline, whatever exports produced the snapshot.    *)
C21_ShortCircuit ==
  [][\A p \in 1..MaxExports :
       (exports[p].pc = "pipeline" /\ exports'[p].pc = "delete_links")
       => ~SnapshotOfStateRead(p)]_vars

(* C22: the status of a document changes only from processing to completed *)
(* or from processing to failed; a completed or failed document keeps its   *)
(* status, also when a call after the status update raises.                 *)
C22_StatusMonotone ==
  [][\A d \in 1..Len(repos.documents) :
       repos'.documents[d].status # repos.documents[d].status
       => /\ repos.documents[d].status = "processing"
          /\ repos'.documents[d].status \in {"completed", "failed"}]_vars

(* C23: under fair scheduling of its task every document in processing      *)
(* reaches completed or failed, also when the update to failed raises.      *)
C23_EventuallyTerminal ==
  \A d \in 1..MaxDocs :
    (d <= Len(repos.documents) /\ repos.documents[d].status = "processing")
    ~> (d <= Len(repos.documents)
        /\ repos.documents[d].status \in {"completed", "failed"})

(* C26: no raw transaction of a failed document is stored, at whatever step *)
(* of the ingestion the failure occurred.                                   *)
C26_FailedDocumentLeavesNoRows ==
  \A d \in 1..Len(repos.documents) :
    repos.documents[d].status = "failed"
    => \A i \in 1..Len(repos.raw) :
         repos.raw[i].document_id # repos.documents[d].id

(* C24: an export issued when a document of the deal has failed, another is *)
(* completed and none is in processing is not refused with                  *)
(* DOCUMENTS_NOT_READY: it goes on to read the rows of the completed ones.  *)
C24_FailedDocumentDoesNotBlockExport ==
  [][\A p \in 1..MaxExports :
       (/\ exports[p].pc = "idle"
        /\ exports'[p].pc # "idle"
        /\ \E d \in 1..Len(repos.documents) : repos.documents[d].status = "failed"
        /\ \E d \in 1..Len(repos.documents) : repos.documents[d].status = "completed"
        /\ \A d \in 1..Len(repos.documents) : repos.documents[d].status # "processing")
       => /\ exports'[p].result.code # "DOCUMENTS_NOT_READY"
          /\ exports'[p].pc = "list_raw"]_vars

(* C25: a document whose file carries an explicit ISO currency code other   *)
(* than the deal's currency ends failed with error type                     *)
(* CurrencyMismatchError, next action fix_currency and currency_mismatch    *)
(* set, whatever the file type.                                             *)
C25_CurrencyMismatchTaxonomy ==
  \A k \in 1..Len(tasks) :
    (tasks[k].pc = "done" /\ tasks[k].file.error = "CurrencyMismatchError")
    => \E d \in 1..Len(repos.documents) :
         /\ repos.documents[d].id = tasks[k].document_id
         /\ repos.documents[d].status = "failed"
         /\ repos.documents[d].error_type = "CurrencyMismatchError"
         /\ repos.documents[d].next_action = "fix_currency"
         /\ repos.documents[d].currency_mismatch = TRUE

(* C27: every successful export, short-circuited or not, returns a snapshot *)
(* whose sha256_hash is the hash of the payload derived from the rows and   *)
(* the overrides it read when it started; a document created at the time   *)
(* of the latest snapshot or later makes the pipeline run again.            *)
C27_NoStaleSnapshot ==
  [][\A p \in 1..MaxExports :
       (/\ exports[p].pc # "done"
        /\ exports'[p].pc = "done"
        /\ exports'[p].result.code = "OK")
       => exports'[p].result.snapshot.sha256_hash =
            PayloadSha(exports'[p].raw, exports'[p].overrides)]_vars

(* C28: when every export of the deal has finished, the stored transfer     *)
(* links and txn-entity mappings of the deal are those of one pipeline run  *)
(* over the deal's transactions: no link twice, no mapping missing, none    *)
(* from an earlier run.                                                     *)
C28_RewriteLeavesOneRun ==
  (/\ \A p \in 1..MaxExports : exports[p].pc = "done"
   /\ \E p \in 1..MaxExports : exports[p].pr # NoPipeline)
  => LET pr == run_pipeline(DEAL, list_by_deal(repos.raw, DEAL),
                            list_by_deal(repos.overrides, DEAL),
                            AccrualOf(DealRow), NULL)
         links == list_by_deal(repos.links, DEAL)
         txn_map == list_by_deal(repos.txn_map, DEAL)
     IN /\ Len(links) = Len(pr.links)
        /\ Range(links) = Range(pr.links)
        /\ Len(txn_map) = Len(pr.txn_map)
        /\ Range(txn_map) = Range(pr.txn_map)

(* an export has rewritten the txn-entity map of the deal to the end *)
MappingsWritten ==
  \E p \in 1..MaxExports :
    /\ exports[p].pr # NoPipeline
    /\ exports[p].pc \in {"get_by_hash", "insert_snapshot", "append_snapshot", "done"}

(* C29: the weight stored with an override is derived from the entity's     *)
(* effective role at the moment of the append: from the latest override of  *)
(* the entity then in the ledger, and, when there is none and an export has *)
(* written the txn-entity map, from the role of the entity's mappings, also *)
(* when another add_override or an export's rewrite of the map runs         *)
(* concurrently.                                                            *)
C29_WeightFromRoleAtAppend ==
  [][\A a \in 1..MaxOverrides :
       (/\ adders[a].pc = "insert"
        /\ adders'[a].pc = "done"
        /\ \/ \E i \in 1..Len(repos.overrides) :
                repos.overrides[i].entity_id = adders[a].entity_id
           \/ MappingsWritten)
       => \E role \in EffectiveRoles(list_by_deal(repos.overrides, DEAL),
                                     adders[a].entity_id) :
            adders'[a].override.weight =
              WeightOfTransition(role, adders[a].new_value)]_vars

(* the overrides_applied list of the payload a direct call built *)
OverridesAppliedOf(call) == call.canon.canonical_json[2].overrides_applied

(* C30: two runs over the same rows and the same overrides, the overrides   *)
(* listed in any two orders, equal or missing created_at included, give the *)
(* same override_penalty_bp, final_confidence_bp, order of                  *)
(* overrides_applied and sha256_hash.                                       *)
C30_OverrideOrderInvariance ==
  (Len(pure_calls) = 2 /\ pure_calls[2].arg = pure_calls[1].arg)
  => /\ pure_calls[2].out.run.override_penalty_bp =
          pure_calls[1].out.run.override_penalty_bp
     /\ pure_calls[2].out.run.final_confidence_bp =
          pure_calls[1].out.run.final_confidence_bp
     /\ OverridesAppliedOf(pure_calls[2]) = OverridesAppliedOf(pure_calls[1])
     /\ pure_calls[2].canon.sha = pure_calls[1].canon.sha

(* C30 for the penalty and the confidence alone, when the created_at of the *)
(* overrides of one entity differ                                           *)
C30_PenaltyWhenStampsDiffer ==
  (/\ Len(pure_calls) = 2
   /\ pure_calls[2].arg = pure_calls[1].arg
   /\ \A i, j \in 1..Len(pure_in.overrides) :
        (i # j /\ pure_in.overrides[i].entity_id = pure_in.overrides[j].entity_id)
        => pure_in.overrides[i].created_at # pure_in.overrides[j].created_at)
  => /\ pure_calls[2].out.run.override_penalty_bp =
          pure_calls[1].out.run.override_penalty_bp
     /\ pure_calls[2].out.run.final_confidence_bp =
          pure_calls[1].out.run.final_confidence_bp

====
